---- MODULE Spec2Model ----
(***************************************************************************)
(* A model of the puppetcpp compiler core: the evaluation context          *)
(* (deferred defined types, collectors, overrides, class declaration, the  *)
(* call stack), the environment (mutex, parse cache, initial manifests)    *)
(* and the registry's node definitions.                                    *)
(***************************************************************************)
EXTENDS Integers, Sequences, FiniteSets, TLC

VARIABLES
    \* ---- evaluation::context (lib/src/compiler/evaluation/context.cc)
    pc,                 \* where the compilation is: "eval", "loop", "post", "done", "failed", "crashed"
    error,              \* the exception finalize or the last operation raised
    catalog,            \* the catalog's named resources: identity -> [attrs, container]
    edges,              \* the catalog's relationships: <<relationship, source, target>>
    _classes,           \* titles of the classes declared through this context
    _overrides,         \* queued overrides: target identity -> overrides in insertion order
    _relationships,     \* deferred relationships
    _defined_types,     \* deferred declared defined types
    dt_capacity,        \* capacity of the _defined_types vector
    dt_virtual,         \* the defined type resources that are virtual in the catalog
    dt_evals,           \* how many times the body of each declared defined type ran
    _collectors,        \* deferred collectors
    iteration,          \* finalize's local: passes completed
    index,              \* finalize's local: entries of _defined_types already visited
    virtualized,        \* finalize's local: pointers to the entries seen virtual
    dt_body,            \* the manifest: what the body of each defined type declares
    body_evals,         \* how many times each class body was evaluated
    returned,           \* what the last declare_class call returned
    applied,            \* the overrides applied to their resource, in order
    n_ops,              \* operations the manifest has performed on the context
    n_finalize,         \* calls of finalize begun
    \* ---- the context's stacks (context.cc, match_scope and scoped_stack_frame)
    _call_stack,        \* the call stack: names of the frames
    _match_stack,       \* the match scope stack: the captures of each scope
    stack_error,        \* the exception the last push raised
    \* ---- compiler::environment (lib/src/compiler/environment.cc)
    _mutex,             \* owner of the environment's mutex, 0 when free
    thread,             \* each thread's position in the operation it runs
    result,             \* what each thread's last operation returned
    files,              \* the manifests on disk
    _parsed,            \* the parse cache: path -> syntax tree
    _initial_manifests, \* the trees of the initial manifests
    reg_classes,        \* names of the classes in the environment's registry
    parses,             \* how many times each path was parsed into a tree
    scans,              \* how many times the tree of each path was scanned
    n_calls,            \* environment operations started
    \* ---- node definitions of compiler::registry (lib/src/compiler/registry.cc)
    _nodes,             \* the registered node statements
    _named_nodes,       \* hostname -> index into _nodes
    _regex_nodes,       \* <<pattern, index into _nodes>> in insertion order
    _default_node_index,\* index of the default node definition, 0 when none
    node_error,         \* the exception the last scan raised
    found,              \* what the last find_node(node) looked up and returned
    \* ---- definitions of compiler::registry, filled by compiler::scanner
    registry_classes,       \* normalized name -> declaration site of the class, 0 when none
    registry_defined_types, \* normalized name -> declaration site of the defined type
    _aliases,               \* normalized name -> declaration site of the type alias
    scanned,                \* the definition statement the scanner visited last
    scan_error,             \* the parse exception that visit raised
    n_scans,                \* definition statements visited
    \* ---- utility::format_map (lib/src/runtime/utility/format_map.cc)
    format_hash,        \* the hash the map is built from: <<type, format>> in iteration order
    _formats,           \* the map's entries after the constructor's sort
    _element_format_map,\* utility::format's pointer to its map of element formats
    \* ---- evaluation::repl (lib/src/compiler/evaluation/repl.cc)
    _buffer,            \* the text of the command being entered
    _prompt,            \* the prompt
    _count,             \* the number of the command being entered
    _line,              \* the line of the command being entered
    repl_result,        \* what the last evaluate call returned
    repl_lines,         \* the lines given to evaluate since the last completed command
    repl_parsed,        \* the text the last evaluate call handed to the parser
    n_evals,            \* evaluate calls made
    \* ---- functions::descriptor::dispatch to the remote extension
    \*      (lib/src/compiler/evaluation/functions/descriptor.cc)
    rpc_pc,             \* the client's position: "start", "read", "yield", "write", "finish", "returned", "raised"
    rpc_result,         \* dispatch's local: the result received, "none" before
    rpc_sent,           \* the requests written to the stream
    rpc_received,       \* the responses read from the stream
    yield_request,      \* the request built for the yield being answered
    rpc_lost,           \* a write failed or the stream ended: "no", "write", "read"
    rpc_status,         \* the status Finish returned, "none" before
    rpc_raised,         \* the exception dispatch raised
    \* ---- the capture vectors of the match scopes (context.cc, context::set)
    match_heap,         \* address -> the vector allocated there, "free" when none
    closures,           \* the closures alive: the vector each shares and what it held at capture
    n_sets,             \* calls of context::set(captures)
    \* ---- the modules of compiler::environment (environment.cc, add_modules)
    _modules,           \* the environment's modules in the order added: name and directory
    module_log,         \* the warnings logged while modules were searched for
    module_dirs,        \* the module directories searched: what each held
    \* ---- the resources of the catalog, declared by resource expressions
    \*      (lib/src/runtime/evaluators/catalog.cc)
    _resources,         \* the catalog's resources in the order added: type name, title, file, line, parameters
    \* ---- the objects of automatic storage duration of the evaluating thread
    \*      (lib/src/compiler/evaluation/context.cc, match_scope and scoped_stack_frame)
    automatic,          \* the scoped stack frames and match scopes alive, innermost last, each with the depths of the two stacks when its construction began
    \* ---- the descriptor of a built-in function (lib/src/compiler/evaluation/functions/descriptor.cc)
    _dispatch_descriptors,\* the signatures added, in the order added, each with its callback
    _omit_frame,        \* whether a call of the function pushes no stack frame
    dispatched,         \* the last call dispatched: the call, the callbacks it ran in order, what it raised
    \* ---- the type aliases a context has resolved (compiler/evaluation/context.cc)
    _resolved_type_aliases, \* context::_resolved_type_aliases: alias -> the shared type mapped to it
    resolved,           \* the outcome of the last call of context::resolve
    \* ---- a call of a library function
    fn,                 \* the function called, and whether it has returned
    args,               \* its arguments
    ret                 \* what it returned, NotCalled before the call

ctx_vars == <<pc, error, catalog, edges, _classes, _overrides, _relationships,
              _defined_types, dt_capacity, dt_virtual, dt_evals, _collectors,
              iteration, index, virtualized, dt_body, body_evals, returned,
              applied, n_ops, n_finalize>>

stack_vars == <<_call_stack, _match_stack, stack_error>>

env_vars == <<_mutex, thread, result, files, _parsed, _initial_manifests, reg_classes,
              parses, scans, n_calls>>

node_vars == <<_nodes, _named_nodes, _regex_nodes, _default_node_index, node_error, found>>

scan_vars == <<registry_classes, registry_defined_types, _aliases, scanned, scan_error, n_scans>>

call_vars == <<fn, args, ret>>

format_vars == <<format_hash, _formats, _element_format_map>>

rpc_vars == <<rpc_pc, rpc_result, rpc_sent, rpc_received, yield_request, rpc_lost,
              rpc_status, rpc_raised>>

match_vars == <<match_heap, closures, n_sets>>

repl_vars == <<_buffer, _prompt, _count, _line, repl_result, repl_lines, repl_parsed, n_evals>>

module_vars == <<_modules, module_log, module_dirs>>

resource_vars == <<_resources>>

unwind_vars == <<automatic>>

dispatch_vars == <<_dispatch_descriptors, _omit_frame, dispatched>>

alias_vars == <<_resolved_type_aliases, resolved>>

core_vars == <<ctx_vars, stack_vars, env_vars, node_vars>>

\* the components added to the core ones
lib_vars == <<scan_vars, call_vars, format_vars, repl_vars, rpc_vars, match_vars,
                 module_vars, resource_vars, unwind_vars, dispatch_vars, alias_vars>>

\* what the operations of each component leave alone
scan_frame == <<core_vars, call_vars, format_vars, repl_vars, rpc_vars, match_vars,
                 module_vars, resource_vars, unwind_vars, dispatch_vars, alias_vars>>
call_frame == <<core_vars, scan_vars, format_vars, repl_vars, rpc_vars, match_vars,
                 module_vars, resource_vars, unwind_vars, dispatch_vars, alias_vars>>
format_frame == <<core_vars, scan_vars, repl_vars, rpc_vars, match_vars, module_vars,
                 resource_vars, unwind_vars, dispatch_vars, alias_vars>>
repl_frame == <<core_vars, scan_vars, call_vars, format_vars, rpc_vars, match_vars,
                 module_vars, resource_vars, unwind_vars, dispatch_vars, alias_vars>>
rpc_frame == <<core_vars, scan_vars, call_vars, format_vars, repl_vars, match_vars,
                 module_vars, resource_vars, unwind_vars, dispatch_vars, alias_vars>>
match_frame == <<ctx_vars, env_vars, node_vars, _call_stack, stack_error,
                 scan_vars, call_vars, format_vars, repl_vars, rpc_vars, module_vars,
                 resource_vars, unwind_vars, dispatch_vars, alias_vars>>
module_frame == <<core_vars, scan_vars, call_vars, format_vars, repl_vars, rpc_vars,
                 match_vars, resource_vars, unwind_vars, dispatch_vars, alias_vars>>
resource_frame == <<core_vars, scan_vars, call_vars, format_vars, repl_vars, rpc_vars,
                    match_vars, module_vars, unwind_vars, dispatch_vars, alias_vars>>
unwind_frame == <<ctx_vars, env_vars, node_vars, scan_vars, call_vars, format_vars,
                  repl_vars, rpc_vars, match_vars, module_vars, resource_vars,
                 dispatch_vars, alias_vars>>
dispatch_frame == <<core_vars, scan_vars, call_vars, format_vars, repl_vars, rpc_vars,
                    match_vars, module_vars, resource_vars, unwind_vars, alias_vars>>
alias_frame == <<core_vars, scan_vars, call_vars, format_vars, repl_vars, rpc_vars,
                 match_vars, module_vars, resource_vars, unwind_vars, dispatch_vars>>

vars == <<core_vars, lib_vars>>

\* ------------------------------------------------------------------------
\* Program constants
\* ------------------------------------------------------------------------

max_iterations == 1000
MAX_STACK_DEPTH == 1000

\* ------------------------------------------------------------------------
\* Bounds of the model
\* ------------------------------------------------------------------------

\* defined type definitions of the manifest
NumDefs == 1
\* defined type instances declared before finalize
MaxDeclared == 2
\* collectors added before finalize
MaxCollectors == 1
\* entries of _defined_types the model follows a runaway manifest to
MaxEntries == 1010
\* operations a manifest performs on the context (class declarations,
\* overrides, relationships)
MaxOps == 4
\* calls of finalize on one context (node::compile makes one)
MaxFinalize == 1

Defs == 1..NumDefs

\* ------------------------------------------------------------------------
\* Errors
\* ------------------------------------------------------------------------

ErrNone == "none"
ErrNotDefined == "cannot declare class because it has not been defined."
ErrStageType == "expected String for 'stage' metaparameter."
ErrStageMissing == "stage does not exist in the catalog."
ErrNoResource == "resource does not exist in the catalog."
ErrConflict == "cannot set attribute that was previously set."
ErrRelationship == "cannot create relationship: resource does not exist in the catalog."
ErrSelf == "resource cannot form a relationship with itself."
ErrPreviouslyDeclared == "resource was previously declared."
ErrMaxIterations == "maximum defined type evaluations exceeded: a defined type may be infinitely recursive."
ErrBody == "evaluation error raised by a defined type body"
ErrCrash == "read through a dangling pointer"

\* ------------------------------------------------------------------------
\* Deferred defined types
\* ------------------------------------------------------------------------

\* What a defined type body does when it is evaluated: fail, or declare at
\* most one more defined type instance (realized or virtual) and add at most
\* one collector (collects is the set of defined types it queries).
EmptyBody == [fails |-> FALSE, declares |-> "none", definition |-> 1, collects |-> {}]

BodyChoices ==
    {[EmptyBody EXCEPT !.fails = TRUE]}
    \cup {[EmptyBody EXCEPT !.collects = q] : q \in SUBSET Defs}
    \cup {[fails |-> FALSE, declares |-> k, definition |-> d, collects |-> q] :
               k \in {"realized", "virtual"}, d \in Defs, q \in SUBSET Defs}

\* An element of finalize's virtualized list points into _defined_types.
\* Its storage is "live", "freed" (a reallocation of _defined_types moved the
\* elements away; the old bytes are still there) or "reused" (the freed
\* bytes were overwritten; they are never the old object again).
\* The outcomes of reading an element whose storage is not live: the old
\* bytes are read ("intact"), overwritten bytes are read and look like a
\* virtual resource ("reused"), or the read faults ("fault").
UafOutcomes == {"intact", "reused", "fault"}

\* std::vector growth when emplace_back finds size = capacity
Grow(cap) == IF cap = 0 THEN 1 ELSE 2 * cap

\* The part of the context a pass over the defined types reads and writes.
PassState(dts, cap, virt, evals, vz, cols) ==
    [dts |-> dts, cap |-> cap, virt |-> virt, evals |-> evals, vz |-> vz, cols |-> cols,
     index |-> 0, err |-> ErrNone]

\* context::add(declared_defined_type): emplace_back on _defined_types; a
\* reallocation invalidates every pointer held in finalize's virtualized list.
AddDeclared(st, d, v) ==
    LET n == Len(st.dts) + 1
        realloc == Len(st.dts) = st.cap
        vz == st.vz
    IN  [st EXCEPT !.dts = Append(st.dts, [definition |-> d]),
                   !.cap = IF realloc THEN Grow(st.cap) ELSE st.cap,
                   !.virt = IF v THEN st.virt \cup {n} ELSE st.virt,
                   !.evals = Append(st.evals, 0),
                   !.vz = IF realloc
                          THEN [k \in 1..Len(vz) |->
                                   [vz[k] EXCEPT !.mem = IF @ = "live" THEN "freed" ELSE @]]
                          ELSE vz]

\* defined_type_evaluator::evaluate on entry i of _defined_types
EvaluateBody(st, i) ==
    LET b == dt_body[st.dts[i].definition]
        st1 == [st EXCEPT !.evals[i] = @ + 1]
        st2 == IF b.collects = {} THEN st1 ELSE [st1 EXCEPT !.cols = Append(@, b.collects)]
    IN  IF b.fails THEN [st1 EXCEPT !.err = ErrBody]
        ELSE IF b.declares = "none" THEN st2
        ELSE AddDeclared(st2, b.definition, b.declares = "virtual")

\* What reading element e of the virtualized list does to its storage
Touch(e, uaf) == IF e.mem = "freed" /\ uaf = "reused" THEN [e EXCEPT !.mem = "reused"] ELSE e

Faults(e, uaf) == e.mem # "live" /\ uaf = "fault"

\* element->resource().virtualized() read through a pointer of the
\* virtualized list
ReadsVirtual(st, e, uaf) ==
    IF Touch(e, uaf).mem = "reused" THEN TRUE ELSE e.index \in st.virt

\* std::all_of over the virtualized list in finalize: "true", "false" or "crash"
RECURSIVE AllStillVirtual(_, _, _)
AllStillVirtual(st, k, uaf) ==
    IF k > Len(st.vz) THEN "true"
    ELSE IF Faults(st.vz[k], uaf) THEN "crash"
    ELSE IF ReadsVirtual(st, st.vz[k], uaf) THEN AllStillVirtual(st, k + 1, uaf)
    ELSE "false"

\* The remove_if of evaluate_defined_types: evaluate every entry of the
\* virtualized list whose resource is no longer virtual and drop it.
RECURSIVE EvaluateRealized(_, _, _, _)
EvaluateRealized(st, k, kept, uaf) ==
    IF st.err # ErrNone THEN st
    ELSE IF k > Len(st.vz) THEN [st EXCEPT !.vz = [j \in 1..Len(kept) |-> st.vz[kept[j]]]]
    ELSE IF Faults(st.vz[k], uaf) THEN [st EXCEPT !.err = ErrCrash]
    ELSE IF ReadsVirtual(st, st.vz[k], uaf)
         THEN EvaluateRealized([st EXCEPT !.vz[k] = Touch(@, uaf)], k + 1, Append(kept, k), uaf)
    ELSE EvaluateRealized(EvaluateBody(st, st.vz[k].index), k + 1, kept, uaf)

\* The for loop of evaluate_defined_types, index counting the entries of
\* _defined_types already visited and size being read before the loop.
RECURSIVE EvaluateFrom(_, _)
EvaluateFrom(st, size) ==
    IF st.index >= size THEN st
    ELSE LET i == st.index + 1
             next == [st EXCEPT !.index = i]
         IN  IF i \in st.virt
             THEN EvaluateFrom([next EXCEPT !.vz = Append(st.vz, [index |-> i, mem |-> "live"])], size)
             ELSE LET st1 == EvaluateBody(st, i)
                  IN  IF st1.err # ErrNone THEN st1
                      ELSE EvaluateFrom([st1 EXCEPT !.index = i], size)

\* context::evaluate_defined_types
evaluate_defined_types(st, idx, uaf) ==
    LET st1 == EvaluateRealized([st EXCEPT !.index = idx], 1, <<>>, uaf)
    IN  IF st1.err # ErrNone THEN st1 ELSE EvaluateFrom(st1, Len(st1.dts))

\* collector::collect for every collector: catalog.realize on the virtual
\* resources of the defined types the collector queries; what stays virtual
RunCollectors(dts, virt, collectors) ==
    {n \in virt : \A c \in 1..Len(collectors) : dts[n].definition \notin collectors[c]}

\* ------------------------------------------------------------------------
\* Names, resource identities and the manifest's classes
\* ------------------------------------------------------------------------

\* Strings are sequences of characters.
ToLower(c) == CASE c = "A" -> "a" [] c = "B" -> "b" [] c = "C" -> "c" [] OTHER -> c

\* registry::normalize: strip a leading "::", then lowercase
normalize(name) ==
    LET stripped == IF Len(name) >= 2 /\ name[1] = ":" /\ name[2] = ":"
                    THEN SubSeq(name, 3, Len(name))
                    ELSE name
    IN  [k \in 1..Len(stripped) |-> ToLower(stripped[k])]

\* types::resource(type_name, title)
Res(type_name, title) == [type_name |-> type_name, title |-> title]
NoResource == Res("", <<>>)

StageMain == Res("stage", <<"m", "a", "i", "n">>)
ClassMain == Res("class", <<"m", "a", "i", "n">>)
ClassSettings == Res("class", <<"s", "e", "t", "t", "i", "n", "g", "s">>)
FileX == Res("file", <<"x">>)
FileY == Res("file", <<"y">>)

\* The classes the environment finds (environment::find_class), by
\* normalized name. The manifest is
\*   class a { file { 'x': mode => 'v0' } }
\*   class b inherits a { File['x'] { mode +> 'v1' } }
\*   class c { fail('c') }
KnownClasses == {<<"a">>, <<"b">>, <<"c">>}

\* The names declare_class is called with
ClassNameInputs == {<<"a">>, <<"A">>, <<":", ":", "a">>, <<"b">>, <<":", ":", "B">>, <<"c">>, <<"d">>}

\* Scopes: the parent of each scope and the resource each is associated with.
NoScope == "null"
ScopeParent(s) == CASE s = "top" -> NoScope [] s = "a" -> "top" [] s = "b" -> "a" [] s = "c" -> "top" [] OTHER -> NoScope
ScopeResource(s) == CASE s = "top" -> ClassMain [] s = "a" -> Res("class", <<"a">>)
                      [] s = "b" -> Res("class", <<"b">>) [] s = "c" -> Res("class", <<"c">>)
                      [] OTHER -> NoResource

\* Attribute values: a string or an array of strings
StringValue(v) == [array |-> FALSE, items |-> <<v>>]
Attr(op, name, value, line) == [op |-> op, name |-> name, value |-> value, line |-> line]

\* resource::set and resource::append as resource_override::evaluate uses them
SetAttribute(attrs, a) ==
    [n \in DOMAIN attrs \cup {a.name} |->
        IF n = a.name THEN [value |-> a.value, line |-> a.line] ELSE attrs[n]]
AppendAttribute(attrs, a) ==
    [n \in DOMAIN attrs \cup {a.name} |->
        IF n # a.name THEN attrs[n]
        ELSE IF n \in DOMAIN attrs
             THEN [value |-> [array |-> TRUE, items |-> attrs[n].value.items \o a.value.items],
                   line |-> attrs[n].line]
             ELSE [value |-> [array |-> TRUE, items |-> a.value.items], line |-> a.line]]

NoAttrs == [n \in {} |-> 0]

\* catalog.add(type, container): the catalog with one more resource
CatalogAdd(cat, type, container) ==
    [r \in DOMAIN cat \cup {type} |->
        IF r = type THEN [attrs |-> NoAttrs, container |-> container] ELSE cat[r]]

\* ------------------------------------------------------------------------
\* Overrides
\* ------------------------------------------------------------------------

\* resource_override(type, context, attributes, scope)
Override(type, attributes, scope) == [type |-> type, attributes |-> attributes, scope |-> scope]

\* The overrides a manifest adds at top scope
OverrideInputs ==
    {Override(FileX, <<Attr("assign", "mode", StringValue(<<"v", "2">>), 2)>>, "top"),
     Override(FileX, <<Attr("append", "owner", StringValue(<<"v", "3">>), 3)>>, "top"),
     Override(FileX, <<>>, "top"),
     Override(FileY, <<Attr("assign", "mode", StringValue(<<"v", "2">>), 4)>>, "top"),
     Override(Res("class", <<"a">>), <<Attr("assign", "stage", StringValue(<<"p", "r", "e">>), 5)>>, "top")}

OverrideTargets == {o.type : o \in OverrideInputs}

\* The walk of resource_override::evaluate over the scope's ancestors,
\* stopping before the top scope
RECURSIVE AncestorHolds(_, _)
AncestorHolds(parent, container) ==
    IF parent = NoScope \/ ScopeParent(parent) = NoScope THEN FALSE
    ELSE IF ScopeResource(parent) # NoResource /\ container = ScopeResource(parent) THEN TRUE
    ELSE AncestorHolds(ScopeParent(parent), container)

\* an evaluation that lets every scope override
AlwaysOverride(scope, container) == TRUE

\* resource_override::evaluate, the override flag
MayOverride(scope, container) ==
    IF scope = NoScope THEN TRUE ELSE AncestorHolds(ScopeParent(scope), container)

RECURSIVE ApplyAttributes(_, _, _)
ApplyAttributes(attrs, attributes, k) ==
    IF k > Len(attributes) THEN attrs
    ELSE ApplyAttributes(IF attributes[k].op = "assign"
                         THEN SetAttribute(attrs, attributes[k])
                         ELSE AppendAttribute(attrs, attributes[k]),
                         attributes, k + 1)

\* An override evaluation that drops an override whose target is missing
OverrideEvaluateSilent(cat, o) ==
    IF o.type \notin DOMAIN cat \/ o.attributes = <<>> THEN [cat |-> cat, err |-> ErrNone]
    ELSE IF /\ ~MayOverride(o.scope, cat[o.type].container)
            /\ \E k \in 1..Len(o.attributes) : o.attributes[k].name \in DOMAIN cat[o.type].attrs
         THEN [cat |-> cat, err |-> ErrConflict]
    ELSE [cat |-> [cat EXCEPT ![o.type].attrs = ApplyAttributes(@, o.attributes, 1)],
          err |-> ErrNone]

\* resource_override::evaluate: the catalog afterwards and the exception raised
OverrideEvaluate(cat, o) ==
    IF o.type \notin DOMAIN cat THEN [cat |-> cat, err |-> ErrNoResource]
    ELSE IF o.attributes = <<>> THEN [cat |-> cat, err |-> ErrNone]
    ELSE IF /\ ~MayOverride(o.scope, cat[o.type].container)
            /\ \E k \in 1..Len(o.attributes) : o.attributes[k].name \in DOMAIN cat[o.type].attrs
         THEN [cat |-> cat, err |-> ErrConflict]
    ELSE [cat |-> [cat EXCEPT ![o.type].attrs = ApplyAttributes(@, o.attributes, 1)],
          err |-> ErrNone]

\* Evaluate a run of overrides in order, stopping at the first exception;
\* log records the overrides applied, in order.
RECURSIVE EvaluateEach(_, _, _, _)
EvaluateEach(cat, log, os, k) ==
    IF k > Len(os) THEN [cat |-> cat, log |-> log, err |-> ErrNone]
    ELSE LET r == OverrideEvaluate(cat, os[k])
         IN  IF r.err # ErrNone THEN [cat |-> cat, log |-> log, err |-> r.err]
             ELSE EvaluateEach(r.cat, Append(log, os[k]), os, k + 1)

\* ------------------------------------------------------------------------
\* Class declaration and the operations a manifest performs
\* ------------------------------------------------------------------------

\* The part of the context the evaluation of a statement reads and writes.
EvalState ==
    [cat |-> catalog, classes |-> _classes, edges |-> edges, evals |-> body_evals,
     ovr |-> _overrides, log |-> applied, err |-> ErrNone, ret |-> NoResource]

\* context::evaluate_overrides: the queued overrides of a resource, in
\* insertion order; the queue is erased only when none of them raised
evaluate_overrides(st, type) ==
    LET r == EvaluateEach(st.cat, st.log, st.ovr[type], 1)
    IN  [st EXCEPT !.cat = r.cat, !.log = r.log, !.err = r.err,
                   !.ovr = IF r.err = ErrNone THEN [st.ovr EXCEPT ![type] = <<>>] ELSE st.ovr]

\* context::add(resource_override)
add_override(st, o) ==
    IF o.type \notin DOMAIN st.cat
    THEN [st EXCEPT !.ovr[o.type] = Append(@, o)]
    ELSE LET st1 == evaluate_overrides(st, o.type)
             r == OverrideEvaluate(st1.cat, o)
         IN  IF st1.err # ErrNone THEN st1
             ELSE [st1 EXCEPT !.cat = r.cat, !.err = r.err,
                              !.log = IF r.err = ErrNone THEN Append(st1.log, o) ELSE st1.log]

\* A resource expression: a resource whose identity is already in the
\* catalog is refused; otherwise the resource is created with its attributes
\* and the overrides queued for it are evaluated
add_resource(st, type, container, attributes) ==
    IF type \in DOMAIN st.cat THEN [st EXCEPT !.err = ErrPreviouslyDeclared]
    ELSE evaluate_overrides(
             [st EXCEPT !.cat = [CatalogAdd(st.cat, type, container) EXCEPT
                                    ![type].attrs = ApplyAttributes(NoAttrs, attributes, 1)]],
             type)

\* a catalog whose relate adds nothing
NoRelate(es, relationship, source, target) == es

\* catalog.relate(relationship, source, target)
relate(es, relationship, source, target) == es \cup {<<relationship, source, target>>}

RECURSIVE declare_class(_, _)

\* class_evaluator::evaluate on the manifest's classes
ClassBody(st, name) ==
    LET st1 == [st EXCEPT !.evals[name] = @ + 1]
        self == Res("class", name)
    IN  CASE name = <<"a">> ->
               add_resource(st1, FileX, self, <<Attr("assign", "mode", StringValue(<<"v", "0">>), 1)>>)
          [] name = <<"b">> ->
               LET st2 == declare_class(st1, <<"a">>)
               IN  IF st2.err # ErrNone THEN st2
                   ELSE add_override(st2, Override(FileX, <<Attr("append", "mode", StringValue(<<"v", "1">>), 6)>>, "b"))
          [] name = <<"c">> -> [st1 EXCEPT !.err = ErrBody]
          [] OTHER -> st1

\* context::declare_class
declare_class(st, raw) ==
    LET name == normalize(raw)
        type == Res("class", name)
    IN  IF name \notin KnownClasses THEN [st EXCEPT !.err = ErrNotDefined]
        ELSE LET st1 == IF type \in DOMAIN st.cat THEN st
                        ELSE [st EXCEPT !.cat = CatalogAdd(st.cat, type, NoResource)]
             IN  IF name \in st1.classes THEN [st1 EXCEPT !.ret = type]
                 ELSE LET st2 == [st1 EXCEPT !.classes = @ \cup {name}]
                          attrs == st2.cat[type].attrs
                          named == "stage" \in DOMAIN attrs
                          stage == IF named THEN Res("stage", attrs["stage"].value.items[1]) ELSE StageMain
                      IN  IF named /\ attrs["stage"].value.array
                          THEN [st2 EXCEPT !.err = ErrStageType]
                          ELSE IF stage \notin DOMAIN st2.cat
                          THEN [st2 EXCEPT !.err = ErrStageMissing]
                          ELSE LET st3 == [st2 EXCEPT !.edges = relate(@, "contains", stage, type)]
                                   st4 == ClassBody(st3, name)
                               IN  IF st4.err # ErrNone THEN st4 ELSE [st4 EXCEPT !.ret = type]

\* resource_relationship::evaluate: the edges afterwards and the exception raised
RelationshipEvaluate(cat, es, r) ==
    IF r.target \notin DOMAIN cat \/ r.source \notin DOMAIN cat THEN [edges |-> es, err |-> ErrRelationship]
    ELSE IF r.source = r.target THEN [edges |-> es, err |-> ErrSelf]
    ELSE [edges |-> es \cup {<<"before", r.source, r.target>>}, err |-> ErrNone]

RECURSIVE EvaluateRelationships(_, _, _, _)
EvaluateRelationships(cat, es, rs, k) ==
    IF k > Len(rs) THEN [edges |-> es, err |-> ErrNone]
    ELSE LET r == RelationshipEvaluate(cat, es, rs[k])
         IN  IF r.err # ErrNone THEN r ELSE EvaluateRelationships(cat, r.edges, rs, k + 1)

\* The relationships a manifest adds
RelationshipInputs ==
    {[source |-> Res("class", <<"a">>), target |-> FileX],
     [source |-> FileX, target |-> FileY]}

\* The last loop of finalize: every override still queued is evaluated, in
\* the container's iteration order (order lists the keys)
RECURSIVE EvaluateRemaining(_, _, _)
EvaluateRemaining(st, order, k) ==
    IF k > Len(order) THEN st
    ELSE LET r == EvaluateEach(st.cat, st.log, st.ovr[order[k]], 1)
             st1 == [st EXCEPT !.cat = r.cat, !.log = r.log, !.err = r.err]
         IN  IF r.err # ErrNone THEN st1 ELSE EvaluateRemaining(st1, order, k + 1)

\* The orders in which a container may hold the keys of S
Orders(S) == {o \in [1..Cardinality(S) -> S] : \A i, j \in 1..Cardinality(S) : i # j => o[i] # o[j]}

\* ------------------------------------------------------------------------
\* The context's operations
\* ------------------------------------------------------------------------

AllTargets == OverrideTargets \cup {FileX}

dt_vars == <<_defined_types, dt_capacity, dt_virtual, dt_evals, _collectors, dt_body>>
loop_vars == <<iteration, index, virtualized>>
eval_vars == <<catalog, edges, _classes, _overrides, body_evals, applied>>

\* node::create_context: Stage[main], Class[settings] and Class[main]
\* node::create_context: the catalog with Stage[main], Class[settings] and
\* Class[main]
InitialCatalog ==
    CatalogAdd(CatalogAdd(CatalogAdd([r \in {} |-> 0], StageMain, NoResource),
                          ClassSettings, StageMain), ClassMain, StageMain)

\* a context created on the catalog
CtxStart(cat) ==
    /\ pc = "eval"
    /\ error = ErrNone
    /\ catalog = cat
    /\ edges = {<<"contains", StageMain, ClassSettings>>, <<"contains", StageMain, ClassMain>>}
    /\ _classes = {}
    /\ _overrides = [t \in AllTargets |-> <<>>]
    /\ _relationships = <<>>
    /\ _defined_types = <<>>
    /\ dt_capacity = 0
    /\ dt_virtual = {}
    /\ dt_evals = <<>>
    /\ _collectors = <<>>
    /\ iteration = 0
    /\ index = 0
    /\ virtualized = <<>>
    /\ body_evals = [c \in KnownClasses |-> 0]
    /\ returned = NoResource
    /\ applied = <<>>
    /\ n_ops = 0
    /\ n_finalize = 0

CtxInit == CtxStart(InitialCatalog)

Evaluating == pc \in {"eval", "done"}

Commit(st) ==
    /\ catalog' = st.cat
    /\ _classes' = st.classes
    /\ edges' = st.edges
    /\ body_evals' = st.evals
    /\ _overrides' = st.ovr
    /\ applied' = st.log
    /\ error' = st.err

\* a statement that declares a class (include, require, contain, ...)
DeclareClass(name) ==
    /\ UNCHANGED <<stack_vars, env_vars, node_vars, lib_vars>>
    /\ Evaluating
    /\ n_ops < MaxOps
    /\ LET st == declare_class(EvalState, name)
       IN  /\ Commit(st)
           /\ returned' = IF st.err = ErrNone THEN st.ret ELSE NoResource
    /\ pc' = "eval"
    /\ n_ops' = n_ops + 1
    /\ UNCHANGED <<n_finalize, _relationships, dt_vars, loop_vars>>

\* a resource override expression at top scope
AddOverride(o) ==
    /\ UNCHANGED <<stack_vars, env_vars, node_vars, lib_vars>>
    /\ Evaluating
    /\ n_ops < MaxOps
    /\ Commit(add_override(EvalState, o))
    /\ pc' = "eval"
    /\ n_ops' = n_ops + 1
    /\ UNCHANGED <<returned, n_finalize, _relationships, dt_vars, loop_vars>>

\* context::add(resource_relationship)
AddRelationship(r) ==
    /\ UNCHANGED <<stack_vars, env_vars, node_vars, lib_vars>>
    /\ Evaluating
    /\ n_ops < MaxOps
    /\ _relationships' = Append(_relationships, r)
    /\ pc' = "eval"
    /\ n_ops' = n_ops + 1
    /\ UNCHANGED <<error, returned, n_finalize, eval_vars, dt_vars, loop_vars>>

\* a defined type instance declared by the manifest, realized or virtual
DeclareDefinedType(d, v) ==
    /\ UNCHANGED <<stack_vars, env_vars, node_vars, lib_vars>>
    /\ Evaluating
    /\ Len(_defined_types) < MaxDeclared
    /\ LET st == AddDeclared(PassState(_defined_types, dt_capacity, dt_virtual, dt_evals, <<>>, _collectors), d, v)
       IN  /\ _defined_types' = st.dts
           /\ dt_capacity' = st.cap
           /\ dt_virtual' = st.virt
           /\ dt_evals' = st.evals
    /\ pc' = "eval"
    /\ UNCHANGED <<error, returned, n_ops, n_finalize, eval_vars, _relationships, _collectors, dt_body, loop_vars>>

\* context::add(collector): a collector querying the defined types in q
AddCollector(q) ==
    /\ UNCHANGED <<stack_vars, env_vars, node_vars, lib_vars>>
    /\ Evaluating
    /\ Len(_collectors) < MaxCollectors
    /\ _collectors' = Append(_collectors, q)
    /\ pc' = "eval"
    /\ UNCHANGED <<error, returned, n_ops, n_finalize, eval_vars, _relationships, _defined_types,
                   dt_capacity, dt_virtual, dt_evals, dt_body, loop_vars>>

\* context::finalize, entry: the locals of the loop
Finalize ==
    /\ UNCHANGED <<stack_vars, env_vars, node_vars, lib_vars>>
    /\ Evaluating
    /\ n_finalize < MaxFinalize
    /\ pc' = "loop"
    /\ iteration' = 0
    /\ index' = 0
    /\ virtualized' = <<>>
    /\ n_finalize' = n_finalize + 1
    /\ UNCHANGED <<error, returned, n_ops, eval_vars, _relationships, dt_vars>>

\* A loop without the guard
GuardNever(it) == FALSE

\* The guard of finalize's loop: iteration++ >= max_iterations
GuardTrips(it) == it >= max_iterations

\* context::finalize, one iteration of the while loop: the collectors, the
\* fixed point test, evaluate_defined_types and the guard
FinalizePass(uaf) ==
    /\ UNCHANGED <<stack_vars, env_vars, node_vars, lib_vars>>
    /\ pc = "loop"
    /\ Len(_defined_types) <= MaxEntries
    /\ LET virt == RunCollectors(_defined_types, dt_virtual, _collectors)
           st == PassState(_defined_types, dt_capacity, virt, dt_evals, virtualized, _collectors)
           fixed == IF index >= Len(_defined_types) THEN AllStillVirtual(st, 1, uaf) ELSE "false"
           st1 == evaluate_defined_types(st, index, uaf)
       IN  IF fixed = "true"
           THEN /\ pc' = "post"
                /\ dt_virtual' = virt
                /\ UNCHANGED <<error, _defined_types, dt_capacity, dt_evals, _collectors, loop_vars>>
           ELSE IF fixed = "crash"
           THEN /\ pc' = "crashed"
                /\ error' = ErrCrash
                /\ dt_virtual' = virt
                /\ UNCHANGED <<_defined_types, dt_capacity, dt_evals, _collectors, loop_vars>>
           ELSE /\ _defined_types' = st1.dts
                /\ dt_capacity' = st1.cap
                /\ dt_virtual' = st1.virt
                /\ dt_evals' = st1.evals
                /\ virtualized' = st1.vz
                /\ _collectors' = st1.cols
                /\ index' = st1.index
                /\ IF st1.err = ErrCrash THEN pc' = "crashed" /\ error' = ErrCrash /\ UNCHANGED iteration
                   ELSE IF st1.err # ErrNone THEN pc' = "failed" /\ error' = st1.err /\ UNCHANGED iteration
                   ELSE IF GuardTrips(iteration)
                   THEN pc' = "failed" /\ error' = ErrMaxIterations /\ iteration' = iteration + 1
                   ELSE pc' = "loop" /\ iteration' = iteration + 1 /\ UNCHANGED error
    /\ UNCHANGED <<returned, n_ops, n_finalize, eval_vars, _relationships, dt_body>>

\* context::finalize after the loop: detect_uncollected (which does
\* nothing), the relationships, the overrides still queued, then the clear
FinalizeFinish(order) ==
    /\ UNCHANGED <<stack_vars, env_vars, node_vars, lib_vars>>
    /\ pc = "post"
    /\ LET rel == EvaluateRelationships(catalog, edges, _relationships, 1)
           st == EvaluateRemaining([EvalState EXCEPT !.edges = rel.edges], order, 1)
       IN  IF rel.err # ErrNone
           THEN /\ pc' = "failed"
                /\ error' = rel.err
                /\ edges' = rel.edges
                /\ UNCHANGED <<catalog, _classes, _overrides, body_evals, applied,
                               _relationships, _defined_types, dt_capacity, dt_virtual, dt_evals, _collectors>>
           ELSE IF st.err # ErrNone
           THEN /\ pc' = "failed"
                /\ Commit(st)
                /\ UNCHANGED <<_relationships, _defined_types, dt_capacity, dt_virtual, dt_evals, _collectors>>
           ELSE /\ pc' = "done"
                /\ catalog' = st.cat
                /\ edges' = st.edges
                /\ applied' = st.log
                /\ error' = ErrNone
                /\ _classes' = {}
                /\ _collectors' = <<>>
                /\ _defined_types' = <<>>
                /\ dt_virtual' = {}
                /\ dt_evals' = <<>>
                /\ _relationships' = <<>>
                /\ _overrides' = [t \in AllTargets |-> <<>>]
                /\ UNCHANGED <<body_evals, dt_capacity>>
    /\ UNCHANGED <<returned, n_ops, n_finalize, dt_body, loop_vars>>

\* ------------------------------------------------------------------------
\* The call stack and the match scope stack
\* ------------------------------------------------------------------------

ErrStackDepth == "cannot call: maximum stack depth reached."

\* The frames pushed: node::compile pushes '<class main>' on the empty
\* stack, every call made during evaluation pushes the callee's frame
FrameFor(stack) == IF stack = <<>> THEN "<class main>" ELSE "f"

\* a match scope with no vector: the null shared_ptr emplace_back() makes
NullScope == <<>>

\* The test of scoped_stack_frame's constructor
DepthReached(stack) == Len(stack) > MAX_STACK_DEPTH

NotUnwound(match_stack) == match_stack

\* scoped_stack_frame's constructor throws: the match_scope base, constructed
\* by then, is destroyed, and its destructor pops the match scope it pushed
Unwind(match_stack) == SubSeq(match_stack, 1, Len(match_stack) - 1)

StackInit ==
    /\ _call_stack = <<>>
    /\ _match_stack = <<>>
    /\ stack_error = ErrNone

\* scoped_stack_frame's constructor: the match_scope base pushes a match
\* scope, then the depth is tested; when the constructor throws, the base
\* is destroyed and pops the match scope again
PushFrame ==
    /\ UNCHANGED <<ctx_vars, env_vars, node_vars, lib_vars>>
    /\ IF DepthReached(_call_stack)
       THEN /\ stack_error' = ErrStackDepth
            /\ _match_stack' = Unwind(Append(_match_stack, NullScope))
            /\ UNCHANGED _call_stack
       ELSE /\ stack_error' = ErrNone
            /\ _match_stack' = Append(_match_stack, NullScope)
            /\ _call_stack' = Append(_call_stack, FrameFor(_call_stack))

\* scoped_stack_frame's destructor, then match_scope's
PopFrame ==
    /\ UNCHANGED <<ctx_vars, env_vars, node_vars, lib_vars>>
    /\ _call_stack # <<>>
    /\ _call_stack' = SubSeq(_call_stack, 1, Len(_call_stack) - 1)
    /\ _match_stack' = SubSeq(_match_stack, 1, Len(_match_stack) - 1)
    /\ stack_error' = ErrNone

\* The operations that push a frame: each constructs a scoped_stack_frame
\* in its block, and its body may construct a match_scope in a nested block.
\* Leaving a block, by return or by an exception in flight, destroys the
\* objects of the block in the reverse order of their construction.

ErrRaised == "an exception raised by the body of the operation"

\* the frames whose body opens a match scope of its own
MatchScopeFrames == {1, 2, MAX_STACK_DEPTH + 1}

UnwindIdle == automatic = <<>>

Innermost == automatic[Len(automatic)]

\* scoped_stack_frame frame{...}: an operation starts
ConstructFrame ==
    /\ stack_error = ErrNone
    /\ IF DepthReached(_call_stack)
       THEN /\ stack_error' = ErrStackDepth
            /\ _match_stack' = Unwind(Append(_match_stack, NullScope))
            /\ UNCHANGED <<_call_stack, automatic>>
       ELSE /\ stack_error' = ErrNone
            /\ _match_stack' = Append(_match_stack, NullScope)
            /\ _call_stack' = Append(_call_stack, FrameFor(_call_stack))
            /\ automatic' = Append(automatic, <<"scoped_stack_frame",
                                                Len(_call_stack), Len(_match_stack)>>)
    /\ UNCHANGED unwind_frame

\* match_scope scope{...} in the body of an operation
ConstructMatchScope ==
    /\ stack_error = ErrNone
    /\ automatic # <<>>
    /\ Innermost[1] = "scoped_stack_frame"
    /\ Len(_call_stack) \in MatchScopeFrames
    /\ _match_stack' = Append(_match_stack, NullScope)
    /\ automatic' = Append(automatic, <<"match_scope", Len(_call_stack), Len(_match_stack)>>)
    /\ UNCHANGED <<_call_stack, stack_error>>
    /\ UNCHANGED unwind_frame

\* the body of an operation throws
Raise ==
    /\ stack_error = ErrNone
    /\ automatic # <<>>
    /\ stack_error' = ErrRaised
    /\ UNCHANGED <<_call_stack, _match_stack, automatic>>
    /\ UNCHANGED unwind_frame

\* the innermost block is left, by return or by the exception in flight:
\* ~scoped_stack_frame pops the frame and then ~match_scope the match scope,
\* ~match_scope alone pops the match scope
Destroy ==
    /\ automatic # <<>>
    /\ automatic' = SubSeq(automatic, 1, Len(automatic) - 1)
    /\ _match_stack' = SubSeq(_match_stack, 1, Len(_match_stack) - 1)
    /\ _call_stack' = IF Innermost[1] = "scoped_stack_frame"
                      THEN SubSeq(_call_stack, 1, Len(_call_stack) - 1)
                      ELSE _call_stack
    /\ UNCHANGED stack_error
    /\ UNCHANGED unwind_frame

\* a handler of an enclosing block catches the exception in flight
Catch ==
    /\ stack_error # ErrNone
    /\ stack_error' = ErrNone
    /\ UNCHANGED <<_call_stack, _match_stack, automatic>>
    /\ UNCHANGED unwind_frame

\* ------------------------------------------------------------------------
\* The environment: mutex, parse cache, initial manifests
\* ------------------------------------------------------------------------

\* threads compiling against one environment
NumThreads == 2
\* environment operations started in one run
MaxCalls == 3

Threads == 1..NumThreads

ErrParse == "syntax error"
ErrInvalid == "validation error"
ErrPreviouslyDefined == "class was previously defined."

\* The manifests on disk: "a.pp" and "b.pp" lie directly under the manifest
\* root, "m.pp" is the init manifest of module 'm'
Paths == {"a.pp", "b.pp", "m.pp"}

\* each_file(find_type::manifest, ...): the files of the manifest root in
\* filename order
ManifestRoot == <<"a.pp", "b.pp">>

\* A manifest: whether it parses, whether its tree validates, and the
\* classes it defines, in order
Manifest(parses_, valid, defines) == [parses |-> parses_, valid |-> valid, defines |-> defines]

FileChoices ==
    {Manifest(TRUE, TRUE, <<"b">>), Manifest(FALSE, TRUE, <<>>),
     Manifest(TRUE, FALSE, <<>>), Manifest(TRUE, TRUE, <<"b", "a">>)}

\* The sources handed to import_source
SourceInputs == {"s1", "s2", "s3"}

SourceContent(src) ==
    CASE src = "s1" -> Manifest(TRUE, TRUE, <<"s">>)
      [] src = "s2" -> Manifest(TRUE, TRUE, <<>>)
      [] OTHER -> Manifest(FALSE, TRUE, <<>>)

\* resolve_name for a class: only module 'm' exists
ModuleManifest(name) == IF name = "m" THEN "m.pp" ELSE ""

\* A syntax tree: the n-th tree parsed from a path or source
Tree(path, n) == <<path, n>>
NoTree == <<>>

\* scanner::scan on a tree's class statements: each class is registered
\* unless its name is already defined
RECURSIVE ScanClasses(_, _, _)
ScanClasses(reg, names, k) ==
    IF k > Len(names) THEN [reg |-> reg, err |-> ErrNone, registered |-> k > 1]
    ELSE IF names[k] \in reg THEN [reg |-> reg, err |-> ErrPreviouslyDefined, registered |-> k > 1]
    ELSE ScanClasses(reg \cup {names[k]}, names, k + 1)

\* An import that never finds the path in the cache
CacheMiss(parsed, path) == FALSE

\* environment::import, the lookup in _parsed
CacheHit(parsed, path) == path \in DOMAIN parsed

\* The part of the environment an import reads and writes
EnvState ==
    [parsed |-> _parsed, reg |-> reg_classes, parses |-> parses, scans |-> scans,
     err |-> ErrNone, tree |-> NoTree]

\* environment::import
import(e, path) ==
    IF CacheHit(e.parsed, path) THEN [e EXCEPT !.tree = e.parsed[path]]
    ELSE IF ~files[path].parses THEN [e EXCEPT !.err = ErrParse]
    ELSE LET tree == Tree(path, e.parses[path] + 1)
             e1 == [e EXCEPT !.parsed = e.parsed @@ (path :> tree), !.parses[path] = @ + 1]
             sc == ScanClasses(e.reg, files[path].defines, 1)
         IN  IF ~files[path].valid THEN [e1 EXCEPT !.err = ErrInvalid]
             ELSE [e1 EXCEPT !.reg = sc.reg, !.scans[path] = @ + 1, !.err = sc.err,
                             !.tree = IF sc.err = ErrNone THEN tree ELSE NoTree]

Idle == [op |-> "none", arg |-> "", step |-> "idle", k |-> 0, tree |-> NoTree]

EnvInit ==
    /\ _mutex = 0
    /\ thread = [t \in Threads |-> Idle]
    /\ result = [t \in Threads |-> [op |-> "none", arg |-> "", err |-> ErrNone, trees |-> <<>>]]
    /\ files \in {[p \in Paths |-> CASE p = "a.pp" -> Manifest(TRUE, TRUE, <<"a">>)
                                     [] p = "m.pp" -> Manifest(TRUE, TRUE, <<"m">>)
                                     [] OTHER -> b] : b \in FileChoices}
    /\ _parsed = [p \in {} |-> NoTree]
    /\ _initial_manifests = <<>>
    /\ reg_classes = {}
    /\ parses = [p \in Paths |-> 0]
    /\ scans = [p \in Paths |-> 0]
    /\ n_calls = 0

\* The operations threads call on the environment
CallInputs ==
    {<<"import_initial_manifests", "">>}
    \cup {<<"import_manifest", p>> : p \in Paths}
    \cup {<<"import_source", src>> : src \in SourceInputs}
    \cup {<<"find_class", c>> : c \in {"a", "m", "zz"}}

EnvCommit(e) ==
    /\ _parsed' = e.parsed
    /\ reg_classes' = e.reg
    /\ parses' = e.parses
    /\ scans' = e.scans

\* the operation of thread t returns (or throws err)
Return(t, err, trees) ==
    /\ result' = [result EXCEPT ![t] = [op |-> thread[t].op, arg |-> thread[t].arg,
                                        err |-> err, trees |-> trees]]
    /\ thread' = [thread EXCEPT ![t] = Idle]

\* thread t calls an operation of the environment
Call(t, op, arg) ==
    /\ UNCHANGED <<ctx_vars, stack_vars, node_vars, lib_vars>>
    /\ thread[t].step = "idle"
    /\ n_calls < MaxCalls
    /\ n_calls' = n_calls + 1
    /\ thread' = [thread EXCEPT ![t] = [Idle EXCEPT !.op = op, !.arg = arg,
                     !.step = IF op = "import_source" THEN "parse" ELSE "lock"]]
    /\ UNCHANGED <<_mutex, result, files, _parsed, _initial_manifests, reg_classes, parses, scans>>

\* lock_guard<mutex> lock(_mutex)
Lock(t) ==
    /\ UNCHANGED <<ctx_vars, stack_vars, node_vars, lib_vars>>
    /\ thread[t].step = "lock"
    /\ _mutex = 0
    /\ _mutex' = t
    /\ thread' = [thread EXCEPT ![t].step = "body"]
    /\ UNCHANGED <<result, files, _parsed, _initial_manifests, reg_classes, parses, scans, n_calls>>

\* an environment that never finds its initial manifests imported
NeverImported(manifests) == FALSE

\* !_initial_manifests.empty()
AlreadyImported(manifests) == manifests # <<>>

\* environment::import_initial_manifests, the test of _initial_manifests
ImportInitialManifests(t) ==
    /\ UNCHANGED <<ctx_vars, stack_vars, node_vars, lib_vars>>
    /\ thread[t].op = "import_initial_manifests"
    /\ thread[t].step = "body"
    /\ IF AlreadyImported(_initial_manifests)
       THEN Return(t, ErrNone, _initial_manifests) /\ _mutex' = 0
       ELSE thread' = [thread EXCEPT ![t].step = "files"] /\ UNCHANGED <<result, _mutex>>
    /\ UNCHANGED <<files, _parsed, _initial_manifests, reg_classes, parses, scans, n_calls>>

\* environment::import_initial_manifests, one file of the each_file loop
\* (and the return after the last one)
ImportNextManifest(t) ==
    /\ UNCHANGED <<ctx_vars, stack_vars, node_vars, lib_vars>>
    /\ thread[t].step = "files"
    /\ LET k == thread[t].k + 1
           e == import(EnvState, ManifestRoot[k])
           list == Append(_initial_manifests, e.tree)
       IN  /\ EnvCommit(e)
           /\ IF e.err # ErrNone
              THEN Return(t, e.err, <<>>) /\ _mutex' = 0 /\ UNCHANGED _initial_manifests
              ELSE /\ _initial_manifests' = list
                   /\ IF k = Len(ManifestRoot)
                      THEN Return(t, ErrNone, list) /\ _mutex' = 0
                      ELSE thread' = [thread EXCEPT ![t].k = k] /\ UNCHANGED <<result, _mutex>>
    /\ UNCHANGED <<files, n_calls>>

\* environment::import_manifest
ImportManifest(t) ==
    /\ UNCHANGED <<ctx_vars, stack_vars, node_vars, lib_vars>>
    /\ thread[t].op = "import_manifest"
    /\ thread[t].step = "body"
    /\ LET e == import(EnvState, thread[t].arg)
       IN  /\ EnvCommit(e)
           /\ Return(t, e.err, IF e.err = ErrNone THEN <<e.tree>> ELSE <<>>)
    /\ _mutex' = 0
    /\ UNCHANGED <<files, _initial_manifests, n_calls>>

\* environment::find_class
FindClass(t) ==
    /\ UNCHANGED <<ctx_vars, stack_vars, node_vars, lib_vars>>
    /\ thread[t].op = "find_class"
    /\ thread[t].step = "body"
    /\ LET path == ModuleManifest(thread[t].arg)
           e == IF thread[t].arg \in reg_classes \/ path = "" THEN EnvState ELSE import(EnvState, path)
       IN  /\ EnvCommit(e)
           /\ Return(t, e.err, <<>>)
    /\ _mutex' = 0
    /\ UNCHANGED <<files, _initial_manifests, n_calls>>

\* environment::import_source: parse_string and validate
ImportSourceParse(t) ==
    /\ UNCHANGED <<ctx_vars, stack_vars, node_vars, lib_vars>>
    /\ thread[t].step = "parse"
    /\ IF SourceContent(thread[t].arg).parses
       THEN /\ thread' = [thread EXCEPT ![t].step = "scan", ![t].tree = Tree(thread[t].arg, 0)]
            /\ UNCHANGED result
       ELSE Return(t, ErrParse, <<>>)
    /\ UNCHANGED <<_mutex, files, _parsed, _initial_manifests, reg_classes, parses, scans, n_calls>>

\* environment::import_source: scanner.scan on the registry
ImportSourceScan(t) ==
    /\ UNCHANGED <<ctx_vars, stack_vars, node_vars, lib_vars>>
    /\ thread[t].step = "scan"
    /\ LET sc == ScanClasses(reg_classes, SourceContent(thread[t].arg).defines, 1)
       IN  /\ reg_classes' = sc.reg
           /\ IF sc.err # ErrNone THEN Return(t, sc.err, <<>>)
              ELSE IF sc.registered
              THEN thread' = [thread EXCEPT ![t].step = "push"] /\ UNCHANGED result
              ELSE Return(t, ErrNone, <<thread[t].tree>>)
    /\ UNCHANGED <<_mutex, files, _parsed, _initial_manifests, parses, scans, n_calls>>

\* environment::import_source: _initial_manifests.push_back reads the end
\* of the vector
ImportSourcePush(t) ==
    /\ UNCHANGED <<ctx_vars, stack_vars, node_vars, lib_vars>>
    /\ thread[t].step = "push"
    /\ thread' = [thread EXCEPT ![t].step = "write", ![t].k = Len(_initial_manifests)]
    /\ UNCHANGED <<_mutex, result, files, _parsed, _initial_manifests, reg_classes, parses, scans, n_calls>>

\* environment::import_source: push_back stores the tree at the end it
\* read; an element another thread stored there meanwhile is overwritten
ImportSourceWrite(t) ==
    /\ UNCHANGED <<ctx_vars, stack_vars, node_vars, lib_vars>>
    /\ thread[t].step = "write"
    /\ LET n == IF thread[t].k < Len(_initial_manifests) THEN thread[t].k ELSE Len(_initial_manifests)
       IN  _initial_manifests' = Append(SubSeq(_initial_manifests, 1, n), thread[t].tree)
    /\ Return(t, ErrNone, <<thread[t].tree>>)
    /\ UNCHANGED <<_mutex, files, _parsed, reg_classes, parses, scans, n_calls>>

\* The reads of the registry made through the environment
FindInputs ==
    {<<"find_class", c>> : c \in {"a", "m", "zz"}}
    \cup {<<op, name>> : op \in {"find_defined_type", "find_type_alias", "find_function",
                                 "find_resource_type", "find_node_definition"},
                         name \in {"m", "zz"}}
    \cup {<<"find_binary_operator", "+">>, <<"find_unary_operator", "-">>}

\* an environment none of whose operations takes the mutex
NeverLocks(op) == FALSE

\* the operation begins with lock_guard<mutex> lock(_mutex)
TakesMutex(op) == op \notin {"find_binary_operator", "find_unary_operator"}

\* thread t calls one of the find operations of the environment
CallFind(t, op, arg) ==
    /\ UNCHANGED <<ctx_vars, stack_vars, node_vars, lib_vars>>
    /\ thread[t].step = "idle"
    /\ n_calls < MaxCalls
    /\ n_calls' = n_calls + 1
    /\ thread' = [thread EXCEPT ![t] = [Idle EXCEPT !.op = op, !.arg = arg,
                     !.step = IF TakesMutex(op) THEN "lock" ELSE "body"]]
    /\ UNCHANGED <<_mutex, result, files, _parsed, _initial_manifests, reg_classes, parses, scans>>

\* environment::find_defined_type, find_type_alias and find_function (the
\* registry's lookup, then the import of the manifest the name resolves
\* to), find_resource_type and find_node_definition (the lookup alone)
FindDefinition(t) ==
    /\ UNCHANGED <<ctx_vars, stack_vars, node_vars, lib_vars>>
    /\ thread[t].op \in {"find_defined_type", "find_type_alias", "find_function",
                         "find_resource_type", "find_node_definition"}
    /\ thread[t].step = "body"
    /\ LET path == ModuleManifest(thread[t].arg)
           imports == thread[t].op \in {"find_defined_type", "find_type_alias", "find_function"}
           e == IF imports /\ path # "" THEN import(EnvState, path) ELSE EnvState
       IN  /\ EnvCommit(e)
           /\ Return(t, e.err, <<>>)
    /\ _mutex' = IF _mutex = t THEN 0 ELSE _mutex
    /\ UNCHANGED <<files, _initial_manifests, n_calls>>

\* environment::find_binary_operator and find_unary_operator
FindOperator(t) ==
    /\ UNCHANGED <<ctx_vars, stack_vars, node_vars, lib_vars>>
    /\ thread[t].op \in {"find_binary_operator", "find_unary_operator"}
    /\ thread[t].step = "body"
    /\ Return(t, ErrNone, <<>>)
    /\ _mutex' = IF _mutex = t THEN 0 ELSE _mutex
    /\ UNCHANGED <<files, _parsed, _initial_manifests, reg_classes, parses, scans, n_calls>>

\* ------------------------------------------------------------------------
\* Node definitions
\* ------------------------------------------------------------------------

\* node definitions registered in one run
MaxNodes == 3

ErrConflictingNode == "a conflicting node definition was previously defined."

\* boost::to_lower_copy
to_lower(str) == [k \in 1..Len(str) |-> ToLower(str[k])]

\* A hostname of a node statement: a literal name, a regex or default
Literal(text) == [kind |-> "literal", text |-> text]
Regex(text) == [kind |-> "regex", text |-> text]
Default == [kind |-> "default", text |-> <<"d", "e", "f", "a", "u", "l", "t">>]

\* The node statements of the manifests scanned
NodeStatementInputs ==
    {<<Literal(<<"a">>)>>, <<Literal(<<"A">>)>>, <<Literal(<<"a", ".", "b">>)>>,
     <<Regex(<<"b">>)>>, <<Regex(<<"a">>)>>, <<Default>>,
     <<Literal(<<"c">>), Regex(<<"b">>), Default>>}

\* The names of the nodes compiled
NodeNameInputs == {<<"a">>, <<"A", ".", "b">>, <<"b">>, <<"c", ".", "a">>, <<"d">>}

\* values::regex::search for a pattern without metacharacters
Search(pattern, name) ==
    \E i \in 1..Len(name) : i + Len(pattern) - 1 <= Len(name)
                            /\ SubSeq(name, i, i + Len(pattern) - 1) = pattern

\* node's constructor: the lower-cased prefixes of the name that end where
\* a non-empty '.'-separated segment ends
NodeNames(name) ==
    {SubSeq(to_lower(name), 1, i) : i \in {j \in 1..Len(name) :
        name[j] # "." /\ (j = Len(name) \/ name[j + 1] = ".")}}

\* A traversal from the least specific name to the most specific
RECURSIVE EachNameForward(_)
EachNameForward(names) ==
    IF names = {} THEN <<>>
    ELSE LET first == CHOOSE n \in names : \A m \in names : Len(n) <= Len(m)
         IN  <<first>> \o EachNameForward(names \ {first})

\* node::each_name: the set of names traversed backwards, the most
\* specific name first
RECURSIVE each_name(_)
each_name(names) ==
    IF names = {} THEN <<>>
    ELSE LET last == CHOOSE n \in names : \A m \in names : Len(m) <= Len(n)
         IN  <<last>> \o each_name(names \ {last})

\* The first regex of _regex_nodes, from position k on, that matches name
RECURSIVE FirstRegex(_, _, _)
FirstRegex(regexes, name, k) ==
    IF k > Len(regexes) THEN 0
    ELSE IF Search(regexes[k][1], name) THEN k
    ELSE FirstRegex(regexes, name, k + 1)

NotFound == [index |-> 0, name |-> <<>>]

\* registry::find_node(node), the callback run over the names: the
\* definition's index (from 1) and the resource name, index 0 when none
RECURSIVE FindByNames(_, _)
FindByNames(names, k) ==
    IF k > Len(names) THEN NotFound
    ELSE LET rx == FirstRegex(_regex_nodes, names[k], 1)
         IN  IF names[k] \in DOMAIN _named_nodes
             THEN [index |-> _named_nodes[names[k]], name |-> names[k]]
             ELSE IF rx # 0
             THEN [index |-> _regex_nodes[rx][2], name |-> <<"/">> \o _regex_nodes[rx][1] \o <<"/">>]
             ELSE FindByNames(names, k + 1)

\* registry::find_node(node)
find_node(name) ==
    LET byname == FindByNames(each_name(NodeNames(name)), 1)
    IN  IF _nodes = <<>> THEN NotFound
        ELSE IF byname.index # 0 THEN byname
        ELSE IF _default_node_index = 0 THEN NotFound
        ELSE [index |-> _default_node_index, name |-> Default.text]

\* registry::find_node(statement): the index of a registered definition the
\* statement conflicts with, 0 when none
RECURSIVE FindConflict(_, _)
FindConflict(statement, k) ==
    IF k > Len(statement) THEN 0
    ELSE LET h == statement[k]
             rx == {j \in 1..Len(_regex_nodes) : _regex_nodes[j][1] = h.text}
         IN  IF h.kind = "default" /\ _default_node_index # 0 THEN _default_node_index
             ELSE IF h.kind = "regex" /\ rx # {}
             THEN _regex_nodes[CHOOSE j \in rx : \A i \in rx : j <= i][2]
             ELSE IF h.kind = "literal" /\ h.text \in DOMAIN _named_nodes THEN _named_nodes[h.text]
             ELSE FindConflict(statement, k + 1)

\* registry::register_node, the loop that adds the named nodes (emplace
\* keeps an existing entry) and the default node
RECURSIVE AddNames(_, _, _, _)
AddNames(named, statement, k, node_index) ==
    IF k > Len(statement) THEN named
    ELSE AddNames(IF statement[k].kind = "literal"
                  THEN named @@ (to_lower(statement[k].text) :> node_index)
                  ELSE named,
                  statement, k + 1, node_index)

NodeInit ==
    /\ _nodes = <<>>
    /\ _named_nodes = [n \in {} |-> 0]
    /\ _regex_nodes = <<>>
    /\ _default_node_index = 0
    /\ node_error = ErrNone
    /\ found = [NotFound EXCEPT !.name = <<>>] @@ [node |-> <<>>]

\* scanner::register_node and registry::register_node
ScanNode(statement) ==
    /\ UNCHANGED <<ctx_vars, stack_vars, env_vars, lib_vars>>
    /\ Len(_nodes) < MaxNodes
    /\ found' = NotFound @@ [node |-> <<>>]
    /\ IF FindConflict(statement, 1) # 0
       THEN /\ node_error' = ErrConflictingNode
            /\ UNCHANGED <<_nodes, _named_nodes, _regex_nodes, _default_node_index>>
       ELSE LET node_index == Len(_nodes) + 1
                regexes == SelectSeq(statement, LAMBDA h : h.kind = "regex")
            IN  /\ node_error' = ErrNone
                /\ _nodes' = Append(_nodes, statement)
                /\ _named_nodes' = AddNames(_named_nodes, statement, 1, node_index)
                /\ _default_node_index' = IF \E k \in 1..Len(statement) : statement[k].kind = "default"
                                          THEN node_index ELSE _default_node_index
                /\ _regex_nodes' = _regex_nodes \o
                       [k \in 1..Len(regexes) |-> <<regexes[k].text, node_index>>]

\* registry::find_node(node) for the node named name
FindNode(name) ==
    /\ UNCHANGED <<ctx_vars, stack_vars, env_vars, lib_vars>>
    /\ found' = find_node(name) @@ [node |-> name]
    /\ UNCHANGED <<_nodes, _named_nodes, _regex_nodes, _default_node_index, node_error>>

ErrNoNodeDefinition == "could not find a default node definition or a node definition for the following hostnames"

\* a registry that never reports node definitions
NeverHasNodes == FALSE

\* registry::has_nodes
has_nodes == _nodes # <<>>

\* environment::find_node_definition(node) for the node named name
FindNodeDefinition(name) ==
    /\ UNCHANGED <<ctx_vars, stack_vars, env_vars, lib_vars>>
    /\ UNCHANGED <<_nodes, _named_nodes, _regex_nodes, _default_node_index>>
    /\ IF ~has_nodes
       THEN /\ found' = NotFound @@ [node |-> name]
            /\ node_error' = ErrNone
       ELSE LET definition == find_node(name)
            IN  /\ found' = definition @@ [node |-> name]
                /\ node_error' = IF definition.index = 0 THEN ErrNoNodeDefinition ELSE ErrNone

\* ------------------------------------------------------------------------
\* compiler::scanner: classes, defined types and type aliases
\* (lib/src/compiler/scanner.cc, lib/src/compiler/registry.cc)
\* ------------------------------------------------------------------------

\* definition statements one scanner visits
MaxScans == 4

ErrDefinedAsDefinedType == "was previously defined as a defined type."
ErrDefinedTypePreviouslyDefined == "defined type was previously defined."
ErrDefinedAsClass == "was previously defined as a class."
ErrAliasPreviouslyDefined == "type alias was previously defined."
ErrAliasConflictsDefinedType == "type alias conflicts with a defined type of the same name."
ErrBuiltinResourceType == "conflicts with a built-in resource type of the same name."

\* the names definitions are registered under
DefinitionNames == {<<"a">>, <<"b">>, <<"c">>}

\* the resource types of the registry (none is imported from Ruby)
BuiltinResourceTypes == {<<"c">>}

\* the lines of the manifest the definition statements are on
DefinitionSites == 1..2

\* the class, defined type and type alias statements of the manifest
DefinitionInputs ==
    [kind : {"class", "defined type", "type alias"},
     name : {<<"a">>, <<":", ":", "A">>, <<"b">>, <<"c">>},
     site : DefinitionSites]

NoStatement == [kind |-> "none", name |-> <<>>, site |-> 0]
NoParseError == [message |-> ErrNone, site |-> 0]

\* registry::find_class, find_defined_type, find_type_alias: the
\* declaration site, 0 for nullptr
find_definition(definitions, name) == definitions[name]

\* registry::register_class, register_defined_type, register_type_alias:
\* unordered_map::emplace
register_definition(definitions, name, site) ==
    IF definitions[name] # 0 THEN definitions
    ELSE [definitions EXCEPT ![name] = site]

\* scanner::check_resource_type
check_resource_type(name) ==
    IF name \in BuiltinResourceTypes
    THEN [message |-> ErrBuiltinResourceType, site |-> 0]
    ELSE NoParseError

\* scanner::register_class: the exception it throws
register_class_error(name) ==
    IF find_definition(registry_classes, name) # 0
    THEN [message |-> ErrPreviouslyDefined, site |-> find_definition(registry_classes, name)]
    ELSE IF find_definition(registry_defined_types, name) # 0
    THEN [message |-> ErrDefinedAsDefinedType, site |-> find_definition(registry_defined_types, name)]
    ELSE check_resource_type(name)

\* scanner::register_defined_type: the exception it throws
register_defined_type_error(name) ==
    IF find_definition(registry_defined_types, name) # 0
    THEN [message |-> ErrDefinedTypePreviouslyDefined, site |-> find_definition(registry_defined_types, name)]
    ELSE IF find_definition(registry_classes, name) # 0
    THEN [message |-> ErrDefinedAsClass, site |-> find_definition(registry_classes, name)]
    ELSE check_resource_type(name)

\* scanner::register_type_alias: the exception it throws
register_type_alias_error(name) ==
    IF find_definition(_aliases, name) # 0
    THEN [message |-> ErrAliasPreviouslyDefined, site |-> find_definition(_aliases, name)]
    ELSE IF find_definition(registry_defined_types, name) # 0
    THEN [message |-> ErrAliasConflictsDefinedType, site |-> find_definition(registry_defined_types, name)]
    ELSE check_resource_type(name)

ScanInit ==
    /\ registry_classes = [n \in DefinitionNames |-> 0]
    /\ registry_defined_types = [n \in DefinitionNames |-> 0]
    /\ _aliases = [n \in DefinitionNames |-> 0]
    /\ scanned = NoStatement
    /\ scan_error = NoParseError
    /\ n_scans = 0

\* scanner::scan visits a class statement
ScanClass(statement) ==
    /\ UNCHANGED scan_frame
    /\ statement.kind = "class"
    /\ n_scans < MaxScans
    /\ n_scans' = n_scans + 1
    /\ scanned' = statement
    /\ LET name == normalize(statement.name)
           raised == register_class_error(name)
       IN  /\ scan_error' = raised
           /\ registry_classes' =
                 IF raised.message # ErrNone THEN registry_classes
                 ELSE register_definition(registry_classes, name, statement.site)
    /\ UNCHANGED <<registry_defined_types, _aliases>>

\* scanner::scan visits a defined type statement
ScanDefinedType(statement) ==
    /\ UNCHANGED scan_frame
    /\ statement.kind = "defined type"
    /\ n_scans < MaxScans
    /\ n_scans' = n_scans + 1
    /\ scanned' = statement
    /\ LET name == normalize(statement.name)
           raised == register_defined_type_error(name)
       IN  /\ scan_error' = raised
           /\ registry_defined_types' =
                 IF raised.message # ErrNone THEN registry_defined_types
                 ELSE register_definition(registry_defined_types, name, statement.site)
    /\ UNCHANGED <<registry_classes, _aliases>>

\* scanner::scan visits a type alias statement
ScanTypeAlias(statement) ==
    /\ UNCHANGED scan_frame
    /\ statement.kind = "type alias"
    /\ n_scans < MaxScans
    /\ n_scans' = n_scans + 1
    /\ scanned' = statement
    /\ LET name == normalize(statement.name)
           raised == register_type_alias_error(name)
       IN  /\ scan_error' = raised
           /\ _aliases' =
                 IF raised.message # ErrNone THEN _aliases
                 ELSE register_definition(_aliases, name, statement.site)
    /\ UNCHANGED <<registry_classes, registry_defined_types>>

\* ------------------------------------------------------------------------
\* utility::format_map (lib/src/runtime/utility/format_map.cc) over the
\* types Class (lib/src/runtime/types/class.cc) and Runtime
\* (lib/src/runtime/types/runtime.cc)
\* ------------------------------------------------------------------------

\* entries of the hash a format map is built from
MaxFormats == 4

\* types::klass{name} and types::runtime{runtime_name, type_name}; an empty
\* name is ""
Class(name) == [kind |-> "Class", first |-> name, second |-> ""]
Runtime(runtime_name, type_name) == [kind |-> "Runtime", first |-> runtime_name, second |-> type_name]

FormatTypes ==
    {Class(""), Class("a"),
     Runtime("", ""), Runtime("r", ""), Runtime("s", ""), Runtime("r", "t")}

\* the values looked up: type values and a string
TypeValue(type) == [type |-> type]
FormatValues == {TypeValue(t) : t \in FormatTypes} \cup {[string |-> "x"]}

\* klass::is_instance and runtime::is_instance
is_instance(type, value) ==
    /\ "type" \in DOMAIN value
    /\ value.type.kind = type.kind
    /\ IF type.kind = "Class"
       THEN type.first = "" \/ type.first = value.type.first
       ELSE \/ type.first = ""
            \/ /\ type.first = value.type.first
               /\ (type.second = "" \/ type.second = value.type.second)

\* klass::is_assignable and runtime::is_assignable
is_assignable(type, other) ==
    /\ other.kind = type.kind
    /\ IF type.kind = "Class"
       THEN type.first = "" \/ type.first = other.first
       ELSE \/ type.first = ""
            \/ /\ type.first = other.first
               /\ (type.second = "" \/ type.second = other.second)

\* get_type_rank: 8 stands for numeric_limits<size_t>::max()
get_type_rank(type) ==
    CASE type.kind = "Struct" -> 1
      [] type.kind = "Hash" -> 2
      [] type.kind = "Tuple" -> 3
      [] type.kind = "Array" -> 4
      [] type.kind = "Pattern" -> 5
      [] type.kind = "Enum" -> 6
      [] type.kind = "String" -> 7
      [] OTHER -> 8

\* the comparison the constructor sorts with
FormatLess(left, right) ==
    LET left_assignable == is_assignable(left[1], right[1])
        right_assignable == is_assignable(right[1], left[1])
    IN  IF left_assignable /\ ~right_assignable THEN FALSE
        ELSE IF ~left_assignable /\ right_assignable THEN TRUE
        ELSE get_type_rank(left[1]) < get_type_rank(right[1])

\* std::sort requires a strict weak ordering of the elements
StrictWeakOrdering(entries) ==
    LET E == {entries[k] : k \in 1..Len(entries)}
        Equiv(a, b) == ~FormatLess(a, b) /\ ~FormatLess(b, a)
    IN  /\ \A a \in E : ~FormatLess(a, a)
        /\ \A a, b, c \in E : FormatLess(a, b) /\ FormatLess(b, c) => FormatLess(a, c)
        /\ \A a, b, c \in E : Equiv(a, b) /\ Equiv(b, c) => Equiv(a, c)

Rearrangements(entries) ==
    LET n == Len(entries)
        perms == {p \in [1..n -> 1..n] : \A i, j \in 1..n : p[i] = p[j] => i = j}
    IN  {[k \in 1..n |-> entries[p[k]]] : p \in perms}

\* std::sort: an ordering of the entries in which no entry is less than one
\* before it; the behaviour is undefined when the comparison is not a
\* strict weak ordering, and then any arrangement may come out
SortOutcomes(entries) ==
    IF StrictWeakOrdering(entries)
    THEN {r \in Rearrangements(entries) :
            \A i, j \in 1..Len(r) : i < j => ~FormatLess(r[j], r[i])}
    ELSE Rearrangements(entries)

\* format_map::find_format: the format of the first entry the value is an
\* instance of
find_format(formats, value) ==
    LET hits == {k \in 1..Len(formats) : is_instance(formats[k][1], value)}
    IN  IF hits = {} THEN "nullptr"
        ELSE formats[CHOOSE k \in hits : \A h \in hits : k <= h][2]

\* the hashes: distinct types, each with a format of its own
FormatHashes ==
    UNION {{h \in [1..n -> FormatTypes \X {"%a", "%b", "%c", "%d"}] :
              /\ \A i, j \in 1..n : h[i][1] = h[j][1] => i = j
              /\ \A i \in 1..n : h[i][2] = <<"%a", "%b", "%c", "%d">>[i]} : n \in 0..MaxFormats}

\* a std::unique_ptr<format_map> that is null, and one that owns _formats
NullPointer == "nullptr"
OwnsFormats == "format_map"

FormatIdle ==
    /\ format_hash = <<>>
    /\ _formats = <<>>
    /\ _element_format_map = NullPointer

\* format_map::format_map(values::hash)
ConstructFormatMap(sorted) ==
    /\ UNCHANGED format_frame
    /\ fn = "none"
    /\ sorted \in SortOutcomes(format_hash)
    /\ _formats' = sorted
    /\ fn' = "format_map"
    /\ UNCHANGED <<format_hash, _element_format_map, args, ret>>

\* format_map::find_format(value)
FindFormat(value) ==
    /\ UNCHANGED format_frame
    /\ fn = "format_map"
    /\ fn' = "find_format"
    /\ args' = value
    /\ ret' = find_format(_formats, value)
    /\ UNCHANGED <<format_hash, _formats, _element_format_map>>

\* ------------------------------------------------------------------------
\* utility::format and its element formats (lib/src/runtime/utility/format.cc)
\* ------------------------------------------------------------------------

\* entries of the 'string_formats' hash of a format specification
MaxElementFormats == 2

\* What a format is constructed from: a format string, or a hash with the
\* 'format' attribute and with or without 'string_formats' (format_hash)
FormatSpecifications ==
    {[from |-> "string", string_formats |-> FALSE],
     [from |-> "hash", string_formats |-> FALSE],
     [from |-> "hash", string_formats |-> TRUE]}

\* What a call through a null std::unique_ptr may do: the behaviour is
\* undefined; the read of the map's entries at a null address faults, or
\* finds anything
SegmentationFault == "segmentation fault"
NullDereference == {SegmentationFault, "nullptr", "%a", "%b"}

\* format::find_element_format: _element_format_map->find_format(value)
find_element_format(value) ==
    IF _element_format_map = NullPointer THEN NullDereference
    ELSE {find_format(_formats, value)}

\* format::format(std::string const&) and format::format(values::hash)
ConstructFormat(specification, sorted) ==
    /\ UNCHANGED format_frame
    /\ fn = "none"
    /\ fn' = "format"
    /\ args' = specification
    /\ IF specification.string_formats
       THEN /\ sorted \in SortOutcomes(format_hash)
            /\ _formats' = sorted
            /\ _element_format_map' = OwnsFormats
       ELSE /\ sorted = format_hash
            /\ UNCHANGED <<_formats, _element_format_map>>
    /\ UNCHANGED <<format_hash, ret>>

\* format::find_element_format(value)
FindElementFormat(value) ==
    /\ UNCHANGED format_frame
    /\ fn = "format"
    /\ fn' = "find_element_format"
    /\ args' = value
    /\ ret' \in find_element_format(value)
    /\ UNCHANGED <<format_hash, _formats, _element_format_map>>

\* ------------------------------------------------------------------------
\* evaluation::repl (lib/src/compiler/evaluation/repl.cc)
\* ------------------------------------------------------------------------

\* evaluate calls made on one REPL
MaxEvals == 5

\* the node's name
ReplNodeName == <<"t", "e", "s", "t">>

\* The language of the commands: "x" is an expression, "(" and ")" group
\* expressions over any number of lines, "!" is a call that fails.  The
\* lines typed at the prompt:
ReplInputs ==
    {<<>>, <<"(">>, <<")">>, <<"x">>, <<"!">>, <<"(", "x">>, <<"x", ")">>, <<"(", ")">>, <<")", ")">>}

\* the parser on the text: the offset of the first character that cannot
\* follow, Len(text) when a group is still open where the text ends, -1
\* when the text parses
RECURSIVE ParseFrom(_, _, _)
ParseFrom(text, k, depth) ==
    IF k > Len(text) THEN (IF depth > 0 THEN Len(text) ELSE -1)
    ELSE IF text[k] = "(" THEN ParseFrom(text, k + 1, depth + 1)
    ELSE IF text[k] = ")" THEN (IF depth = 0 THEN k - 1 ELSE ParseFrom(text, k + 1, depth - 1))
    ELSE ParseFrom(text, k + 1, depth)

ParseErrorOffset(text) == ParseFrom(text, 1, 0)

\* the evaluator on the parsed statements: the last value, or an evaluation
\* exception
EvaluateStatements(text) ==
    IF \E k \in 1..Len(text) : text[k] = "!"
    THEN [value |-> "undef", exception |-> "evaluation error"]
    ELSE [value |-> Cardinality({k \in 1..Len(text) : text[k] = "x"}), exception |-> "none"]

\* the decimal digits of a number
Digit(d) == <<"0", "1", "2", "3", "4", "5", "6", "7", "8", "9">>[d + 1]

RECURSIVE Decimal(_)
Decimal(n) == IF n < 10 THEN <<Digit(n)>> ELSE Append(Decimal(n \div 10), Digit(n % 10))

\* boost::format's %03d: the decimal digits, with zeros in front up to a
\* width of three
RECURSIVE ZeroPad(_, _)
ZeroPad(digits, width) ==
    IF Len(digits) >= width THEN digits ELSE ZeroPad(<<"0">> \o digits, width)

FormatPrompt(name, count, line) ==
    name \o <<":">> \o ZeroPad(Decimal(count), 3) \o <<":">> \o Decimal(line) \o <<">", " ">>

\* a REPL that takes no parse exception for the end of the input
NeverAtEndOfBuffer(offset, buffer) == FALSE

\* the comparison of the parse exception's position with the end of the
\* buffer
AtEndOfBuffer(offset, buffer) == offset = Len(buffer)

\* a completion that always takes the command to span lines
CompleteMultiline(buffer, multiline) ==
    [buffer |-> Append(buffer, "\n"), line |-> _line + 1, count |-> _count,
     prompt |-> FormatPrompt(ReplNodeName, _count, _line + 1)]

\* repl::complete, on the buffer evaluate left
complete(buffer, multiline) ==
    LET buffer_ == IF multiline THEN Append(buffer, "\n") ELSE <<>>
        line_ == IF multiline THEN _line + 1 ELSE 1
        count_ == IF multiline THEN _count ELSE _count + 1
    IN  [buffer |-> buffer_, line |-> line_, count |-> count_,
         prompt |-> FormatPrompt(ReplNodeName, count_, line_)]

NoResult == [returned |-> "none"]

\* repl::evaluate up to its return: the buffer, the multiline flag, the
\* returned value and the text parsed
evaluate(source) ==
    IF source = <<>>
    THEN [buffer |-> _buffer, multiline |-> _buffer # <<>>, result |-> NoResult, parsed |-> "nothing"]
    ELSE LET buffer == _buffer \o source
             offset == ParseErrorOffset(buffer)
             outcome == EvaluateStatements(buffer)
         IN  IF offset >= 0 /\ AtEndOfBuffer(offset, buffer)
             THEN [buffer |-> buffer, multiline |-> TRUE, result |-> NoResult, parsed |-> buffer]
             ELSE [buffer |-> buffer, multiline |-> FALSE, parsed |-> buffer,
                   result |-> [returned |-> "result", source |-> buffer,
                               value |-> IF offset >= 0 THEN "undef" ELSE outcome.value,
                               exception |-> IF offset >= 0 THEN "syntax error" ELSE outcome.exception]]

\* the first prompts of the REPLs observed: a new REPL, and REPLs that
\* have completed 7, 97 and 997 commands
ReplStartCounts == {1, 8, 98, 998}

ReplIdle ==
    /\ _buffer = <<>>
    /\ _count = 1
    /\ _line = 1
    /\ _prompt = FormatPrompt(ReplNodeName, 1, 1)
    /\ repl_result = NoResult
    /\ repl_lines = <<>>
    /\ repl_parsed = "nothing"
    /\ n_evals = 0

\* repl::evaluate(source), with the completion its helper runs on return
Evaluate(source) ==
    /\ UNCHANGED repl_frame
    /\ n_evals < MaxEvals
    /\ n_evals' = n_evals + 1
    /\ LET call == evaluate(source)
           after == complete(call.buffer, call.multiline)
       IN  /\ repl_result' = call.result
           /\ repl_parsed' = call.parsed
           /\ _buffer' = after.buffer
           /\ _line' = after.line
           /\ _count' = after.count
           /\ _prompt' = after.prompt
           /\ repl_lines' = IF call.multiline THEN Append(repl_lines, source) ELSE <<>>

\* ------------------------------------------------------------------------
\* functions::descriptor::dispatch: a function invoked in the remote
\* extension (lib/src/compiler/evaluation/functions/descriptor.cc)
\* ------------------------------------------------------------------------

\* responses the server sends on one stream
MaxResponses == 4

ErrConnectionLost == "connection lost to Ruby host process."
ErrCannotConnect == "cannot connect to Ruby host process."
ErrRpc == "failed to invoke Puppet function: RPC error code."
ErrUnexpectedResponse == "unexpected response from server when invoking a function."
ErrRemote == "the message of the exception the server sent"

\* InvokeFunctionResponse: a result, an exception, a yield, or none of them
Responses == {"result", "exception", "yield", "unrecognized"}

\* grpc::Status of Finish
Statuses == {"OK", "UNAVAILABLE", "INTERNAL"}

\* how the block ends when the client yields to it
BlockOutcomes == {"value", "evaluation_exception", "exception"}

CallRequest == [kind |-> "call", carries |-> "arguments"]

\* a client that repeats the call where the continuation is due
RepeatCall(outcome) == CallRequest

\* the continuation request built for a yield: the block's value, or the
\* exception it raised
Continuation(outcome) ==
    [kind |-> "continuation",
     carries |-> IF outcome = "value" THEN "result" ELSE "exception"]

\* a client that takes every stream to have brought a result
AnyResult(optional) == TRUE

\* the test of dispatch's optional result
HasResult(optional) == optional # "none"

RpcIdle ==
    /\ rpc_pc = "start"
    /\ rpc_result = "none"
    /\ rpc_sent = <<>>
    /\ rpc_received = <<>>
    /\ yield_request = "none"
    /\ rpc_lost = "no"
    /\ rpc_status = "none"
    /\ rpc_raised = ErrNone

\* service.Invoke and the write of the call request
WriteCall(ok) ==
    /\ UNCHANGED rpc_frame
    /\ rpc_pc = "start"
    /\ IF ok
       THEN /\ rpc_sent' = Append(rpc_sent, CallRequest)
            /\ rpc_pc' = "read"
            /\ UNCHANGED <<rpc_lost, rpc_raised>>
       ELSE /\ rpc_lost' = "write"
            /\ rpc_raised' = ErrConnectionLost
            /\ rpc_pc' = "raised"
            /\ UNCHANGED rpc_sent
    /\ UNCHANGED <<rpc_result, rpc_received, yield_request, rpc_status>>

\* stream->Read brings a response
ReadResponse(response) ==
    /\ UNCHANGED rpc_frame
    /\ rpc_pc = "read"
    /\ Len(rpc_received) < MaxResponses
    /\ rpc_received' = Append(rpc_received, response)
    /\ CASE response = "result" ->
              /\ rpc_result' = "value"
              /\ rpc_pc' = "finish"
              /\ UNCHANGED rpc_raised
         [] response = "exception" ->
              /\ rpc_raised' = ErrRemote
              /\ rpc_pc' = "raised"
              /\ UNCHANGED rpc_result
         [] response = "yield" ->
              /\ rpc_pc' = "yield"
              /\ UNCHANGED <<rpc_result, rpc_raised>>
         [] OTHER ->
              /\ rpc_pc' = "finish"
              /\ UNCHANGED <<rpc_result, rpc_raised>>
    /\ UNCHANGED <<rpc_sent, yield_request, rpc_lost, rpc_status>>

\* stream->Read returns false: the stream ended or the connection is lost
ReadEnd ==
    /\ UNCHANGED rpc_frame
    /\ rpc_pc = "read"
    /\ rpc_lost' = "read"
    /\ rpc_pc' = "finish"
    /\ UNCHANGED <<rpc_result, rpc_sent, rpc_received, yield_request, rpc_status, rpc_raised>>

\* the yield to the block, answered in the continuation request
Yield(outcome) ==
    /\ UNCHANGED rpc_frame
    /\ rpc_pc = "yield"
    /\ yield_request' = Continuation(outcome)
    /\ rpc_pc' = "write"
    /\ UNCHANGED <<rpc_result, rpc_sent, rpc_received, rpc_lost, rpc_status, rpc_raised>>

\* the write of the continuation request
WriteContinuation(ok) ==
    /\ UNCHANGED rpc_frame
    /\ rpc_pc = "write"
    /\ yield_request' = "none"
    /\ IF ok
       THEN /\ rpc_sent' = Append(rpc_sent, yield_request)
            /\ rpc_pc' = "read"
            /\ UNCHANGED <<rpc_lost, rpc_raised>>
       ELSE /\ rpc_lost' = "write"
            /\ rpc_raised' = ErrConnectionLost
            /\ rpc_pc' = "raised"
            /\ UNCHANGED rpc_sent
    /\ UNCHANGED <<rpc_result, rpc_received, rpc_status>>

\* stream->WritesDone, stream->Finish and the return
Finish(status) ==
    /\ UNCHANGED rpc_frame
    /\ rpc_pc = "finish"
    /\ rpc_status' = status
    /\ IF status # "OK"
       THEN /\ rpc_raised' = IF status = "UNAVAILABLE" THEN ErrCannotConnect ELSE ErrRpc
            /\ rpc_pc' = "raised"
       ELSE IF ~HasResult(rpc_result)
       THEN /\ rpc_raised' = ErrUnexpectedResponse
            /\ rpc_pc' = "raised"
       ELSE /\ rpc_pc' = "returned"
            /\ UNCHANGED rpc_raised
    /\ UNCHANGED <<rpc_result, rpc_sent, rpc_received, yield_request, rpc_lost>>

\* ------------------------------------------------------------------------
\* Match scopes and their capture vectors (context.cc: match_scope,
\* context::set, context::lookup)
\* ------------------------------------------------------------------------

\* vectors that can be allocated at a time
MaxVectors == 4
\* match scopes on the stack
MaxScopes == 2
\* closures alive at a time
MaxClosures == 2
\* calls of context::set
MaxSets == 3

Addresses == {<<"vector", a>> : a \in 1..MaxVectors}

FreeStore == [allocated |-> FALSE, items |-> <<>>]
Vector(items) == [allocated |-> TRUE, items |-> items]

\* the captures of the regex matches of the manifest
CaptureInputs == {<<"a">>, <<"b", "c">>, <<"d">>}

\* shared_ptr::use_count of the vector at the address
use_count(address) ==
    Cardinality({k \in 1..Len(_match_stack) : _match_stack[k] = address})
    + Cardinality({c \in 1..Len(closures) : closures[c].scope = address})

\* a context that takes every vector to be its own
AlwaysUnique(address) == TRUE

\* shared_ptr::unique
unique(address) == use_count(address) = 1

\* context::lookup(index): the capture of the nearest match scope with a
\* vector, "nullptr" when there is none
lookup(position) ==
    LET with == {k \in 1..Len(_match_stack) : _match_stack[k] # NullScope}
    IN  IF with = {} THEN "nullptr"
        ELSE LET matches == match_heap[_match_stack[CHOOSE k \in with : \A h \in with : h <= k]]
             IN  IF position >= Len(matches.items) THEN "nullptr" ELSE matches.items[position + 1]

\* the heap without the vectors no shared_ptr refers to
Collect(heap, stack, held) ==
    [a \in Addresses |->
        IF \/ \E k \in 1..Len(stack) : stack[k] = a
           \/ \E c \in 1..Len(held) : held[c].scope = a
        THEN heap[a] ELSE FreeStore]

MatchIdle ==
    /\ match_heap = [a \in Addresses |-> FreeStore]
    /\ closures = <<>>
    /\ n_sets = 0

\* match_scope::match_scope
PushMatchScope ==
    /\ UNCHANGED match_frame
    /\ Len(_match_stack) < MaxScopes
    /\ _match_stack' = Append(_match_stack, NullScope)
    /\ UNCHANGED match_vars

\* match_scope::~match_scope
PopMatchScope ==
    /\ UNCHANGED match_frame
    /\ _match_stack # <<>>
    /\ _match_stack' = SubSeq(_match_stack, 1, Len(_match_stack) - 1)
    /\ match_heap' = Collect(match_heap, _match_stack', closures)
    /\ UNCHANGED <<closures, n_sets>>

\* context::set(captures); make_shared may return any free address
Set(captures, fresh) ==
    /\ UNCHANGED match_frame
    /\ n_sets < MaxSets
    /\ n_sets' = n_sets + 1
    /\ IF _match_stack = <<>>
       THEN UNCHANGED <<_match_stack, match_heap, closures>>
       ELSE LET back == Len(_match_stack)
                scope == _match_stack[back]
            IN  IF scope = NullScope \/ ~unique(scope)
                THEN /\ match_heap[fresh] = FreeStore
                     /\ _match_stack' = [_match_stack EXCEPT ![back] = fresh]
                     /\ match_heap' = [Collect(match_heap, _match_stack', closures)
                                          EXCEPT ![fresh] = Vector(captures)]
                     /\ UNCHANGED closures
                ELSE /\ fresh = scope
                     /\ match_heap' = [match_heap EXCEPT ![scope] = Vector(captures)]
                     /\ UNCHANGED <<_match_stack, closures>>

\* a closure is created and shares the vector of a match scope
Capture(k) ==
    /\ UNCHANGED match_frame
    /\ Len(closures) < MaxClosures
    /\ k \in 1..Len(_match_stack)
    /\ _match_stack[k] # NullScope
    /\ closures' = Append(closures, [scope |-> _match_stack[k], seen |-> match_heap[_match_stack[k]]])
    /\ UNCHANGED <<_match_stack, match_heap, n_sets>>

\* the oldest closure is destroyed
Release ==
    /\ UNCHANGED match_frame
    /\ closures # <<>>
    /\ closures' = Tail(closures)
    /\ match_heap' = Collect(match_heap, _match_stack, closures')
    /\ UNCHANGED <<_match_stack, n_sets>>

\* ------------------------------------------------------------------------
\* The modules of compiler::environment (lib/src/compiler/environment.cc,
\* environment::add_modules)
\* ------------------------------------------------------------------------

\* directories of the module path searched
MaxDirectories == 2

\* The names of the subdirectories a module directory may hold, in the
\* order std::sort gives the file names
DirectoryNames == <<"B", "a", "lib", "m">>

\* What a module directory holds: for each name whether a subdirectory has
\* it and, if so, what module::is_valid_name answers for it
Listings == [1..Len(DirectoryNames) -> {"absent", "valid", "invalid"}]
NotADirectory == <<>>

WarnLib == "found module named 'lib'"
WarnInvalidName == "found module with invalid name"
WarnConflict == "conflicts with existing module"

Warning(message, name, path) == [message |-> message, name |-> name, path |-> path]

\* environment::find_module: the index of the module of that name, 0 when none
find_module(modules, name) ==
    IF \E i \in 1..Len(modules) : modules[i].name = name
    THEN CHOOSE i \in 1..Len(modules) : modules[i].name = name
    ELSE 0

\* no name is the literal "lib"
NeverLib(name) == FALSE

\* module.second == "lib"
IsLib(name) == name = "lib"

\* The loop of add_modules over the sorted subdirectories, from the k-th on
RECURSIVE AddEachModule(_, _, _, _)
AddEachModule(st, directory, listing, k) ==
    IF k > Len(DirectoryNames) THEN st
    ELSE LET name == DirectoryNames[k]
             path == <<directory, name>>
             lib == IsLib(name)
             warned == IF lib THEN Append(st.log, Warning(WarnLib, name, path)) ELSE st.log
             existing == find_module(st.modules, name)
         IN  IF listing[k] = "absent"
             THEN AddEachModule(st, directory, listing, k + 1)
             ELSE IF ~lib /\ listing[k] = "invalid"
             THEN AddEachModule([st EXCEPT !.log = Append(@, Warning(WarnInvalidName, name, path))],
                                directory, listing, k + 1)
             ELSE IF existing # 0
             THEN AddEachModule([st EXCEPT !.log = Append(warned, Warning(WarnConflict, name, path))],
                                directory, listing, k + 1)
             ELSE AddEachModule([modules |-> Append(st.modules, [name |-> name, directory |-> directory]),
                                 log |-> warned],
                                directory, listing, k + 1)

ModulesIdle ==
    /\ _modules = <<>>
    /\ module_log = <<>>
    /\ module_dirs = <<>>

\* add_modules(logger, directory): the next directory of the module path is searched
AddModules(listing) ==
    /\ UNCHANGED module_frame
    /\ Len(module_dirs) < MaxDirectories
    /\ module_dirs' = Append(module_dirs, listing)
    /\ IF listing = NotADirectory
       THEN UNCHANGED <<_modules, module_log>>
       ELSE LET st == AddEachModule([modules |-> _modules, log |-> module_log],
                                    Len(module_dirs) + 1, listing, 1)
            IN  /\ _modules' = st.modules
                /\ module_log' = st.log

\* ------------------------------------------------------------------------
\* Resource expressions: the resources they add to the catalog
\* (lib/src/runtime/evaluators/catalog.cc)
\* ------------------------------------------------------------------------

MaxBodies == 2
MaxResources == 2

ErrVirtual == "virtual resource expressions are not yet implemented."
ErrExported == "exported resource expressions are not yet implemented."
ErrEmptyTitle == "resource title cannot be empty."
ErrAlreadyExists == "resource already exists in the catalog."
ErrTitleType == "expected String resource title but found another type."
ErrIllegalOperation == "illegal attribute operation: only '=' is supported in a resource expression."

\* the values a title evaluates to
String(text) == [kind |-> "string", text |-> text, items |-> <<>>]
Array(items) == [kind |-> "array", text |-> "", items |-> items]
Integer5 == [kind |-> "integer", text |-> "5", items |-> <<>>]

TitleValues ==
    { String("a"), String(""), Integer5,
      Array(<<String("a"), String("b")>>),
      Array(<<String("b"), Array(<<String("b")>>)>>) }

\* a body: its title, and the operator of its attribute ("none" without one)
Bodies ==
    UNION { [1..n -> TitleValues] : n \in 1..MaxBodies }

AttributeOperators == {"none", "=", "+>"}

ResourceExpressions ==
    { [status |-> "realized", type |-> t, titles |-> b, op |-> o] :
         t \in {"file", "File", "user"}, b \in Bodies, o \in AttributeOperators }
    \cup
    { [status |-> s, type |-> "file", titles |-> <<String("a")>>, op |-> "none"] :
         s \in {"virtualized", "exported"} }

ManifestPath == "site.pp"

NullResource == 0

Lower(name) == IF name = "File" THEN "file" ELSE name

\* the identity of a resource in the catalog: the type name in lower case,
\* and the title
Identity(type_name, title) == <<Lower(type_name), title>>

\* catalog::find_resource: the index in the catalog of the resource of the
\* identity, NullResource when there is none
find_resource(resources, type_name, title) ==
    IF \E i \in 1..Len(resources) :
          Identity(resources[i].type_name, resources[i].title) = Identity(type_name, title)
    THEN CHOOSE i \in 1..Len(resources) :
          Identity(resources[i].type_name, resources[i].title) = Identity(type_name, title)
    ELSE NullResource

\* catalog::add_resource: adds a resource of a new identity and answers its
\* index, answers NullResource for an identity the catalog holds
catalog_add_resource(resources, type_name, title, file, line) ==
    IF find_resource(resources, type_name, title) # NullResource
    THEN [resources |-> resources, resource |-> NullResource]
    ELSE [resources |-> Append(resources,
                                  [type_name |-> type_name, title |-> title,
                                   file |-> file, line |-> line, parameters |-> {}]),
          resource |-> Len(resources) + 1]

NeverRejected(resource) == FALSE

\* if (!resource)
Rejected(resource) == resource = NullResource

\* catalog_expression_evaluator::add_resource, on the state st of the
\* evaluation: the catalog, the resources and the types of the body, and the
\* exception thrown.  A string title adds one resource, an array title adds
\* the resources of its elements in order, until one throws
RECURSIVE evaluator_add_resource(_, _, _, _)
RECURSIVE AddEachTitle(_, _, _, _, _)

AddEachTitle(st, type_name, titles, line, k) ==
    IF k > Len(titles) \/ st.raised # ErrNone
    THEN st
    ELSE AddEachTitle(evaluator_add_resource(st, type_name, titles[k], line),
                      type_name, titles, line, k + 1)

evaluator_add_resource(st, type_name, title, line) ==
    IF title.kind = "string"
    THEN IF title.text = ""
         THEN [st EXCEPT !.raised = ErrEmptyTitle]
         ELSE LET added == catalog_add_resource(st.catalog, type_name, title.text,
                                                ManifestPath, line)
              IN IF Rejected(added.resource)
                 THEN IF find_resource(added.resources, type_name, title.text) # NullResource
                      THEN [st EXCEPT !.raised = ErrPreviouslyDeclared]
                      ELSE [st EXCEPT !.raised = ErrAlreadyExists]
                 ELSE [st EXCEPT !.catalog = added.resources,
                                 !.resources = Append(@, added.resource),
                                 !.types = Append(@, <<type_name, title.text>>)]
    ELSE IF title.kind = "array"
    THEN AddEachTitle(st, type_name, title.items, line, 1)
    ELSE [st EXCEPT !.raised = ErrTitleType]

\* resource.set_parameter on each resource of the body
SetParameters(entries, resources, name) ==
    [i \in 1..Len(entries) |->
        IF \E r \in 1..Len(resources) : resources[r] = i
        THEN [entries[i] EXCEPT !.parameters = @ \cup {name}]
        ELSE entries[i]]

\* the loop over the bodies of a resource expression: each body adds its
\* resources, then sets its attribute on them
RECURSIVE EvaluateBodies(_, _, _)
EvaluateBodies(st, expr, k) ==
    IF k > Len(expr.titles) \/ st.raised # ErrNone
    THEN st
    ELSE LET added == evaluator_add_resource([st EXCEPT !.resources = <<>>],
                                             expr.type, expr.titles[k], k)
             next == IF added.raised # ErrNone \/ expr.op = "none"
                     THEN added
                     ELSE IF expr.op # "="
                     THEN [added EXCEPT !.raised = ErrIllegalOperation]
                     ELSE [added EXCEPT
                             !.catalog = SetParameters(@, added.resources, "ensure")]
         IN EvaluateBodies(next, expr, k + 1)

ResourcesIdle == _resources = <<>>

\* catalog_expression_evaluator::operator()(ast::resource_expression const&)
EvaluateResourceExpression(expr) ==
    /\ Len(_resources) < MaxResources
    /\ LET st == [catalog |-> _resources, resources |-> <<>>, types |-> <<>>,
                  raised |-> ErrNone]
           done == IF expr.status = "virtualized"
                   THEN [st EXCEPT !.raised = ErrVirtual]
                   ELSE IF expr.status = "exported"
                   THEN [st EXCEPT !.raised = ErrExported]
                   ELSE EvaluateBodies(st, expr, 1)
       IN /\ _resources' = done.catalog
          /\ fn' = "resource_expression returned"
          /\ args' = expr
          /\ ret' = [raised |-> done.raised,
                     value |-> IF done.raised = ErrNone THEN done.types ELSE <<>>]
    /\ UNCHANGED <<core_vars, scan_vars, format_vars, repl_vars, rpc_vars, match_vars,
                   module_vars, unwind_vars, dispatch_vars, alias_vars>>

\* ------------------------------------------------------------------------
\* The descriptor of a built-in function: signatures added, calls dispatched
\* (lib/src/compiler/evaluation/functions/descriptor.cc)
\* ------------------------------------------------------------------------

MaxSignatures == 2
MaxDispatches == 2

ErrCannotDispatch == "function cannot be dispatched, for the reason the checks found."

\* what a call passes, as far as the signatures tell calls apart
CallInputKinds == {"Integer", "String", "Array"}

\* the signatures, each given by the calls it can dispatch
SignatureInputs == { {"Integer"}, {"Integer", "String"} }

\* a string that does not parse as a Callable
InvalidSignature == {"invalid"}

NotDispatched == [number |-> 0, call |-> "none", invoked |-> <<>>, raised |-> ErrNone]

DispatchIdle ==
    /\ _dispatch_descriptors = <<>>
    /\ _omit_frame = FALSE
    /\ dispatched = NotDispatched

\* descriptor.signature.can_dispatch(context)
can_dispatch(signature, call) == call \in signature

\* descriptor::add: a signature that parses is appended with its callback,
\* one that does not throws
Add(signature) ==
    /\ Len(_dispatch_descriptors) < MaxSignatures
    /\ IF signature = InvalidSignature
       THEN UNCHANGED _dispatch_descriptors
       ELSE _dispatch_descriptors' =
               Append(_dispatch_descriptors,
                      [signature |-> signature,
                       callback |-> Len(_dispatch_descriptors) + 1])
    /\ UNCHANGED <<_omit_frame, dispatched>>
    /\ UNCHANGED dispatch_frame

LastDispatchable(descriptors, call, k) ==
    IF \E j \in 1..Len(descriptors) : can_dispatch(descriptors[j].signature, call)
    THEN CHOOSE j \in 1..Len(descriptors) :
            /\ can_dispatch(descriptors[j].signature, call)
            /\ \A i \in (j + 1)..Len(descriptors) :
                  ~can_dispatch(descriptors[i].signature, call)
    ELSE Len(descriptors) + 1

\* where the loop over the descriptors from k on stops: at the first one
\* that can dispatch the call, past the last when none can
RECURSIVE FirstDispatchable(_, _, _)
FirstDispatchable(descriptors, call, k) ==
    IF k > Len(descriptors) THEN k
    ELSE IF can_dispatch(descriptors[k].signature, call) THEN k
    ELSE FirstDispatchable(descriptors, call, k + 1)

\* descriptor::dispatch for a built-in function: the callback of the
\* descriptor found is called, in a stack frame of its own unless the
\* function omits it; the frame and its match scope are gone on return
Dispatch(call) ==
    /\ dispatched.number < MaxDispatches
    /\ LET k == FirstDispatchable(_dispatch_descriptors, call, 1)
       IN  dispatched' =
             IF k > Len(_dispatch_descriptors)
             THEN [number |-> dispatched.number + 1, call |-> call, invoked |-> <<>>, raised |-> ErrCannotDispatch]
             ELSE IF ~_omit_frame /\ DepthReached(_call_stack)
             THEN [number |-> dispatched.number + 1, call |-> call, invoked |-> <<>>, raised |-> ErrStackDepth]
             ELSE [number |-> dispatched.number + 1, call |-> call,
                   invoked |-> <<_dispatch_descriptors[k].callback>>, raised |-> ErrNone]
    /\ UNCHANGED <<_dispatch_descriptors, _omit_frame>>
    /\ UNCHANGED dispatch_frame

\* ------------------------------------------------------------------------
\* Resolving a type alias (context::resolve, compiler/evaluation/context.cc)
\* ------------------------------------------------------------------------

\* calls of context::resolve followed
MaxResolves == 3

ErrNotAType == "expected type alias to evaluate to a type."
ErrNotReal == "does not resolve to a real type."

\* the type alias statements of the manifest, alias |-> its type expression:
\*   type Good = Integer    type Bad = 1    type Loop = Loop
TypeAliases == [Good |-> "Integer", Bad |-> "1", Loop |-> "Loop"]

AliasNames == DOMAIN TypeAliases

\* values::type, as far as resolving tells types apart
AnyType == [kind |-> "Any", name |-> ""]
IntegerType == [kind |-> "Integer", name |-> ""]
Alias(name) == [kind |-> "Alias", name |-> name]
\* no type: what type::create returns for an expression that is not a type
NullType == [kind |-> "null", name |-> ""]
\* find() of an alias that has no entry in the map
Unmapped == [kind |-> "end", name |-> ""]

NotResolved == [number |-> 0, alias |-> "", type |-> NullType, raised |-> ErrNone]

AliasIdle ==
    /\ _resolved_type_aliases = [alias \in AliasNames |-> Unmapped]
    /\ resolved = NotResolved

\* values::type::create for the type expression of an alias statement: the
\* name of a type gives the type, the name of an alias gives an alias type
\* that shares the type the context maps to the alias (context::resolve of
\* an alias under resolution returns the mapped type), anything else no type
create(expression, aliases) ==
    IF expression \in AliasNames /\ aliases[expression] # Unmapped THEN Alias(expression)
    ELSE IF expression = "Integer" THEN IntegerType
    ELSE NullType

\* values::type::is_real under a recursion guard: an alias is as real as the
\* type it resolves to, and an alias met again under the guard is not real
RECURSIVE is_real(_, _, _)
is_real(type, aliases, guard) ==
    IF type.kind = "Alias"
    THEN IF type.name \in guard THEN FALSE
         ELSE is_real(aliases[type.name], aliases, guard \cup {type.name})
    ELSE TRUE

\* context::resolve: a mapped alias returns the type mapped to it; otherwise
\* a frame is pushed, the alias is mapped to a new Any type, the statement's
\* type is created and assigned to the mapped type, and the mapped type is
\* returned when it is real. The frame is popped on return and on throw.
resolve(aliases, alias, call_stack) ==
    IF aliases[alias] # Unmapped
    THEN [aliases |-> aliases, type |-> aliases[alias], raised |-> ErrNone]
    ELSE IF DepthReached(call_stack)
    THEN [aliases |-> aliases, type |-> NullType, raised |-> ErrStackDepth]
    ELSE LET mapped == [aliases EXCEPT ![alias] = AnyType]
             type == create(TypeAliases[alias], mapped)
             assigned == [mapped EXCEPT ![alias] = type]
         IN  IF type = NullType
             THEN [aliases |-> mapped, type |-> NullType, raised |-> ErrNotAType]
             ELSE IF ~is_real(type, assigned, {})
             THEN [aliases |-> assigned, type |-> NullType, raised |-> ErrNotReal]
             ELSE [aliases |-> assigned, type |-> type, raised |-> ErrNone]

\* a call of context::resolve on the context
Resolve(alias) ==
    /\ resolved.number < MaxResolves
    /\ LET r == resolve(_resolved_type_aliases, alias, _call_stack)
       IN  /\ _resolved_type_aliases' = r.aliases
           /\ resolved' = [number |-> resolved.number + 1, alias |-> alias,
                           type |-> r.type, raised |-> r.raised]
    /\ UNCHANGED alias_frame

\* ------------------------------------------------------------------------
\* A call of a library function
\* ------------------------------------------------------------------------

NotCalled == "not called"
NoCall == <<>>

CallIdle ==
    /\ fn = "none"
    /\ args = NoCall
    /\ ret = NotCalled

\* the added components with nothing scanned and nothing called
LibIdle ==
    /\ ScanInit
    /\ CallIdle
    /\ FormatIdle
    /\ ReplIdle
    /\ RpcIdle
    /\ MatchIdle
    /\ ModulesIdle
    /\ ResourcesIdle
    /\ UnwindIdle
    /\ DispatchIdle
    /\ AliasIdle

\* ------------------------------------------------------------------------
\* operators::multiply on integers (lib/src/runtime/operators/multiply.cc)
\* ------------------------------------------------------------------------

\* bits of the integers multiplied, standing for the 64 of int64_t
IntBits == 7

\* numeric_limits<int64_t>::max() and min() at that width
IntMax == 2^(IntBits - 1) - 1
IntMin == -(2^(IntBits - 1))

Ints == IntMin..IntMax

ErrOverflow == "multiplication results in an arithmetic overflow."
ErrUnderflow == "multiplication results in an arithmetic underflow."

\* division rounding down
FloorDiv(a, b) == IF b > 0 THEN a \div b ELSE (-a) \div (-b)

\* the / of C++ on integers: the quotient with its fraction discarded
TruncDiv(a, b) ==
    LET abs(x) == IF x < 0 THEN -x ELSE x
        q == abs(a) \div abs(b)
    IN  IF (a < 0) = (b < 0) THEN q ELSE -q

\* the * of C++ on integers of that width, where the product fits
Times(a, b) ==
    LET m == (a * b) % 2^IntBits
    IN  IF m > IntMax THEN m - 2^IntBits ELSE m

Raised(message) == [raised |-> message, value |-> 0]
Value(v) == [raised |-> ErrNone, value |-> v]

\* multiply_visitor::operator()(int64_t, int64_t)
multiply(left, right) ==
    IF right > 0
    THEN IF left > TruncDiv(IntMax, right) THEN Raised(ErrOverflow)
         ELSE IF left < TruncDiv(IntMin, right) THEN Raised(ErrUnderflow)
         ELSE Value(Times(left, right))
    ELSE IF right < -1
    THEN IF left > TruncDiv(IntMin, right) THEN Raised(ErrUnderflow)
         ELSE IF left < TruncDiv(IntMax, right) THEN Raised(ErrOverflow)
         ELSE Value(Times(left, right))
    ELSE IF right = -1 /\ left = IntMin THEN Raised(ErrOverflow)
    ELSE Value(Times(left, right))

\* the evaluation of left * right
Multiply ==
    /\ UNCHANGED call_frame
    /\ fn = "multiply"
    /\ fn' = "multiply returned"
    /\ ret' = multiply(args[1], args[2])
    /\ UNCHANGED args

\* ------------------------------------------------------------------------
\* lexer::parse_heredoc and lexer::extract_string (lexer/lexer.hpp)
\* ------------------------------------------------------------------------

\* lines of a heredoc's body
MaxBodyLines == 2

ErrHeredocEnd == "unexpected end of input while looking for heredoc end tag."

\* the end tag of the heredocs
HeredocTag == <<"E">>

\* The lines after the line of the heredoc token, without their line
\* breaks: those of the body ...
BodyLineInputs ==
    {<<>>, <<"x">>, <<" ", "x">>, <<" ", " ", "x">>, <<"-", " ", "x">>, <<"|", " ", "x">>,
     <<" ", "E", "x">>}

\* ... and the one with the end tag
EndLineInputs ==
    {<<"E">>, <<" ", "E">>, <<"-", " ", "E">>, <<" ", "|", " ", "E">>,
     <<" ", " ", "|", "-", "E", " ">>, <<"|", " ", "-", " ", "E">>}

HeredocInputs ==
    UNION {{body \o <<last>> : body \in [1..n -> BodyLineInputs], last \in EndLineInputs}
           : n \in 0..MaxBodyLines}
    \cup {<<>>, <<<<"x">>>>}

is_space(c) == c = " "

\* the index of the first character at or after k that is no space
RECURSIVE SkipSpaces(_, _)
SkipSpaces(line, k) ==
    IF k <= Len(line) /\ is_space(line[k]) THEN SkipSpaces(line, k + 1) ELSE k

\* the tag stands at k and only spaces follow it
TagAt(line, k) ==
    /\ k + Len(HeredocTag) - 1 <= Len(line)
    /\ SubSeq(line, k, k + Len(HeredocTag) - 1) = HeredocTag
    /\ SkipSpaces(line, k + Len(HeredocTag)) > Len(line)

\* one pass of the search loop over a line: the margin counted, the flags
\* raised by the markers met, and whether the line holds the end tag
SearchLine(line, flags) ==
    LET bar_at == SkipSpaces(line, 1)
        has_bar == bar_at <= Len(line) /\ line[bar_at] = "|"
        dash_at == IF has_bar THEN SkipSpaces(line, bar_at + 1) ELSE bar_at
        has_dash == dash_at <= Len(line) /\ line[dash_at] = "-"
        tag_at == IF has_dash THEN SkipSpaces(line, dash_at + 1) ELSE dash_at
    IN  [margin |-> bar_at - 1,
         has_margin |-> flags.has_margin \/ has_bar,
         remove_break |-> flags.remove_break \/ has_dash,
         found |-> TagAt(line, tag_at)]

\* the search for the end tag from line k on: the flags are those of the
\* function, set by every line searched
RECURSIVE SearchEndTag(_, _, _)
SearchEndTag(lines, k, flags) ==
    IF k > Len(lines) THEN [found |-> FALSE, doc_end |-> k] @@ flags
    ELSE LET searched == SearchLine(lines[k], flags)
         IN  IF searched.found THEN [doc_end |-> k] @@ searched
             ELSE SearchEndTag(lines, k + 1, searched)

\* a line without the spaces of the margin
StripMargin(line, margin) ==
    LET stripped == IF SkipSpaces(line, 1) - 1 < margin THEN SkipSpaces(line, 1) - 1 ELSE margin
    IN  SubSeq(line, stripped + 1, Len(line))

\* lexer::extract_string over the lines before doc_end, with no escapes:
\* each line without its margin, followed by its line break
RECURSIVE extract_string(_, _)
extract_string(lines, margin) ==
    IF lines = <<>> THEN <<>>
    ELSE StripMargin(lines[1], margin) \o <<"\n">> \o extract_string(Tail(lines), margin)

\* the removal of the trailing line break
RemoveBreak(text) ==
    IF text # <<>> /\ text[Len(text)] = "\n" THEN SubSeq(text, 1, Len(text) - 1) ELSE text

\* lexer::parse_heredoc on the lines after the token's line
parse_heredoc(lines) ==
    LET search == SearchEndTag(lines, 1, [margin |-> 0, has_margin |-> FALSE, remove_break |-> FALSE])
        text == extract_string(SubSeq(lines, 1, search.doc_end - 1),
                               IF search.has_margin THEN search.margin ELSE 0)
    IN  IF ~search.found THEN [raised |-> ErrHeredocEnd, text |-> <<>>]
        ELSE [raised |-> ErrNone, text |-> IF search.remove_break THEN RemoveBreak(text) ELSE text]

\* the lexer meets a heredoc token
ParseHeredoc ==
    /\ UNCHANGED call_frame
    /\ fn = "parse_heredoc"
    /\ fn' = "parse_heredoc returned"
    /\ ret' = parse_heredoc(args)
    /\ UNCHANGED args

\* ------------------------------------------------------------------------
\* The lexer's iterator: its position, and the lines of a heredoc it skips
\* (lexer/lexer.hpp, lexer_iterator and lexer::parse_heredoc)
\* ------------------------------------------------------------------------

MaxSourceLines == 4

HeredocToken == <<"@", "(", "E", ")">>

\* the lines of a source, without their line breaks
SourceLineInputs ==
    { <<>>, <<"x">>, <<"E">>, <<" ", "E">>, HeredocToken, HeredocToken \o <<"x">>,
      HeredocToken \o HeredocToken }

RECURSIVE JoinLines(_, _)
JoinLines(lines, last_break) ==
    IF lines = <<>> THEN <<>>
    ELSE lines[1]
         \o (IF Len(lines) > 1 \/ last_break THEN <<"\n">> ELSE <<>>)
         \o JoinLines(Tail(lines), last_break)

IteratorSources ==
    UNION { { JoinLines(lines, last_break) :
                lines \in [1..n -> SourceLineInputs], last_break \in BOOLEAN }
            : n \in 1..MaxSourceLines }

\* boost::none
None == [base |-> 0, offset |-> 0, line |-> 0]

\* lexer_iterator(iter): at the first character, offset 0 of line 1
lexer_iterator(base) ==
    [base |-> base, offset |-> 0, line |-> 1, next |-> None]

\* the end of the input
eoi(source) == Len(source) + 1

\* *base; the inputs never make the lexer read the character at eoi
Current(source, it) == IF it.base <= Len(source) THEN source[it.base] ELSE "eoi"

OneLineOn(it) == [base |-> it.next.base, offset |-> it.next.offset, line |-> it.line + 1]

\* the iterator and position stashed by set_next, where a skip lands
Skip(it) == it.next

\* lexer_iterator::increment
increment(source, it) ==
    IF it.next # None /\ Current(source, it) = "\n"
    THEN [base |-> Skip(it).base, offset |-> Skip(it).offset, line |-> Skip(it).line,
          next |-> None]
    ELSE [it EXCEPT !.base = @ + 1,
                    !.offset = @ + 1,
                    !.line = IF Current(source, it) = "\n" THEN @ + 1 ELSE @]

\* lexer_iterator::set_next
set_next(it, next) ==
    [it EXCEPT !.next = [base |-> next.base, offset |-> next.offset, line |-> next.line]]

\* lexer_iterator::get_next into a default constructed iterator
get_next(it) ==
    [base |-> it.next.base, offset |-> it.next.offset, line |-> it.next.line, next |-> None]

\* move_next_line: past the next line break; moved is false at the end of
\* the input
RECURSIVE move_next_line(_, _)
move_next_line(source, begin) ==
    IF begin.base = eoi(source) THEN [it |-> begin, moved |-> FALSE]
    ELSE IF Current(source, begin) = "\n"
    THEN [it |-> increment(source, begin), moved |-> TRUE]
    ELSE move_next_line(source, increment(source, begin))

RECURSIVE SkipSpace(_, _)
SkipSpace(source, it) ==
    IF it.base # eoi(source) /\ is_space(Current(source, it))
    THEN SkipSpace(source, increment(source, it))
    ELSE it

\* the end tag stands at line_end, and only spaces follow it on its line
TagLine(source, line_end) ==
    /\ Current(source, line_end) = HeredocTag[1]
    /\ LET rest == SkipSpace(source, increment(source, line_end))
       IN  rest.base = eoi(source) \/ Current(source, rest) = "\n"

\* the search for the end tag: the start of the line that holds it, eoi
\* when no line does
RECURSIVE SearchDocEnd(_, _)
SearchDocEnd(source, doc_end) ==
    IF doc_end.base = eoi(source) THEN doc_end
    ELSE LET line_end == SkipSpace(source, doc_end)
         IN  IF line_end.base = eoi(source) THEN line_end
             ELSE IF TagLine(source, line_end) THEN doc_end
             ELSE SearchDocEnd(source, move_next_line(source, line_end).it)

RECURSIVE Advance(_, _, _)
Advance(source, it, n) ==
    IF n = 0 THEN it ELSE Advance(source, increment(source, it), n - 1)

\* lexer::parse_heredoc as far as the iterators go: the body begins on the
\* line after the token's, or where the heredoc before it on the line ended;
\* the iterator past the token is told to skip to the line after the end tag
HeredocIterators(source, start, end) ==
    LET first == IF start.next # None
                 THEN [it |-> get_next(start), moved |-> TRUE]
                 ELSE move_next_line(source, end)
        doc_end == SearchDocEnd(source, first.it)
    IN  IF ~first.moved \/ doc_end.base = eoi(source)
        THEN [raised |-> ErrHeredocEnd, end |-> end]
        ELSE [raised |-> ErrNone,
              end |-> set_next(end, move_next_line(source, doc_end).it)]

AtHeredocToken(source, it) == Current(source, it) = HeredocToken[1]

\* the lexer matches a token of one character, or one character of white
\* space
LexCharacter ==
    /\ fn = "lex"
    /\ ret.base # eoi(args)
    /\ ~AtHeredocToken(args, ret)
    /\ ret' = increment(args, ret)
    /\ UNCHANGED <<fn, args>>
    /\ UNCHANGED call_frame

\* the lexer matches a heredoc token and runs its action
LexHeredoc ==
    /\ fn = "lex"
    /\ AtHeredocToken(args, ret)
    /\ LET parsed == HeredocIterators(args, ret, Advance(args, ret, Len(HeredocToken)))
       IN  /\ ret' = parsed.end
           /\ fn' = IF parsed.raised = ErrNone THEN "lex" ELSE "lex raised"
    /\ UNCHANGED args
    /\ UNCHANGED call_frame

\* ------------------------------------------------------------------------
\* The lexer's tokens and its states for '/' (lexer/lexer.hpp, lexer::lexer
\* and lexer::force_slash)
\* ------------------------------------------------------------------------

\* characters of the sources lexed exhaustively
MaxSourceLen == 4

\* The characters of the sources: a digit, a letter, the closing brackets,
\* "$", a space, "/" and "*"
SourceChars == {"1", "a", ")", "}", "$", " ", "/", "*"}

LexInputs ==
    UNION {[1..n -> SourceChars] : n \in 0..MaxSourceLen}
    \cup {<<"1", " ", "/", " ", "1", " ", "/", " ", "1">>,
          <<"1", " ", "/", "a", "/">>,
          <<"a", "/", "*", "a", "*", "/", "/", "1">>,
          <<"$", "a", "/", "1", "/">>,
          <<"/", "a", "/", " ", "/", "1", "/">>}

\* the length of the longest run of characters of the set from k on
RECURSIVE Run(_, _, _)
Run(text, k, chars) ==
    IF k <= Len(text) /\ text[k] \in chars THEN 1 + Run(text, k + 1, chars) ELSE 0

\* the index of the first character of the set at or after k, 0 when none
RECURSIVE Find(_, _, _)
Find(text, k, chars) ==
    IF k > Len(text) THEN 0
    ELSE IF text[k] \in chars THEN k
    ELSE Find(text, k + 1, chars)

\* the length of the block comment that starts at k, 0 when none does
CommentAt(text, k) ==
    IF k + 1 <= Len(text) /\ text[k] = "/" /\ text[k + 1] = "*"
    THEN LET closes == {j \in (k + 2)..(Len(text) - 1) : text[j] = "*" /\ text[j + 1] = "/"}
         IN  IF closes = {} THEN 0
             ELSE (CHOOSE j \in closes : \A h \in closes : j <= h) + 2 - k
    ELSE 0

\* the longest match of the regex token's pattern at k:
\* (\/\/)|(\/[^*][^/\n]*\/)
RegexAt(text, k) ==
    IF k + 1 <= Len(text) /\ text[k] = "/" /\ text[k + 1] # "*"
    THEN LET close == Find(text, k + 2, {"/"})
         IN  IF close # 0 THEN close + 1 - k
             ELSE IF text[k + 1] = "/" THEN 2 ELSE 0
    ELSE 0

\* the longest match of SLASH_CHECK_PATTERN at k: spaces, block comments
\* each followed by spaces, then "/"
RECURSIVE SlashCheckAt(_, _)
SlashCheckAt(text, k) ==
    LET at == k + Run(text, k, {" "})
        comment == CommentAt(text, at)
        longer == IF comment = 0 THEN 0 ELSE SlashCheckAt(text, at + comment)
    IN  IF longer # 0 THEN (at + comment - k) + longer
        ELSE IF at <= Len(text) /\ text[at] = "/" THEN at + 1 - k
        ELSE 0

\* the token definitions of the initial state, in match order: the token
\* id, the length matched at k, and whether the token's action is no_regex
\* (the strings' and the heredoc's actions call force_slash as well)
TokenDefs(text, k) ==
    <<[id |-> ")", len |-> Run(<<text[k]>>, 1, {")"}), no_regex |-> TRUE],
      [id |-> "}", len |-> Run(<<text[k]>>, 1, {"}"}), no_regex |-> FALSE],
      [id |-> "/", len |-> Run(<<text[k]>>, 1, {"/"}), no_regex |-> FALSE],
      [id |-> "*", len |-> Run(<<text[k]>>, 1, {"*"}), no_regex |-> FALSE],
      [id |-> "invalid_number",
       len |-> LET digits == Run(text, k, {"1"})
                   letters == Run(text, k + digits, {"a"})
               IN  IF digits > 0 /\ letters > 0 THEN digits + letters ELSE 0,
       no_regex |-> TRUE],
      [id |-> "number", len |-> Run(text, k, {"1"}), no_regex |-> TRUE],
      [id |-> "name",
       len |-> IF text[k] = "a" THEN 1 + Run(text, k + 1, {"a", "1"}) ELSE 0,
       no_regex |-> TRUE],
      [id |-> "regex", len |-> RegexAt(text, k), no_regex |-> TRUE],
      [id |-> "comment", len |-> CommentAt(text, k), no_regex |-> FALSE],
      [id |-> "whitespace", len |-> Run(text, k, {" "}), no_regex |-> FALSE],
      [id |-> "variable",
       len |-> IF text[k] = "$" /\ Run(text, k + 1, {"a", "1"}) > 0
               THEN 1 + Run(text, k + 1, {"a", "1"}) ELSE 0,
       no_regex |-> FALSE],
      [id |-> "unknown", len |-> 1, no_regex |-> FALSE]>>

\* the token the lexer matches at k: the longest match, the first defined
\* of the longest
Match(text, k) ==
    LET defs == TokenDefs(text, k)
        best == CHOOSE d \in 1..Len(defs) :
                    \A e \in 1..Len(defs) :
                        \/ defs[d].len > defs[e].len
                        \/ defs[d].len = defs[e].len /\ d <= e
    IN  defs[best]

\* a lexer without the lookahead
stay_initial(text, k) == "initial"

\* lexer::force_slash: the state after a no_regex token that ends before k
force_slash(text, k) ==
    IF SlashCheckAt(text, k) # 0 THEN "FS" ELSE "initial"

\* the tokens passed to the parser from k on, each with the index of its
\* first and last character
RECURSIVE Tokens(_, _, _)
Tokens(text, k, state) ==
    IF k > Len(text) THEN <<>>
    ELSE IF state = "FS"
    THEN LET len == SlashCheckAt(text, k)
         IN  <<[id |-> "/", first |-> k + len - 1, last |-> k + len - 1]>>
             \o Tokens(text, k + len, "initial")
    ELSE LET token == Match(text, k)
             next == IF token.no_regex THEN force_slash(text, k + token.len) ELSE "initial"
             rest == Tokens(text, k + token.len, next)
         IN  IF token.id \in {"comment", "whitespace"} THEN rest
             ELSE <<[id |-> token.id, first |-> k, last |-> k + token.len - 1]>> \o rest

\* the source is lexed
Lex ==
    /\ UNCHANGED call_frame
    /\ fn = "lex"
    /\ fn' = "lex returned"
    /\ ret' = Tokens(args, 1, "initial")
    /\ UNCHANGED args

\* ------------------------------------------------------------------------
\* The format of an integer as a character (lib/src/runtime/utility/
\* formatter.cc, format_visitor::operator()(int64_t), case 'c')
\* ------------------------------------------------------------------------

ErrExceedsCodePoint == "exceeds the range of a Unicode code point"
ErrInvalidCodePoint == "is not a valid Unicode code point"
ErrUtf8Library == "utf8::invalid_code_point"

\* the last Unicode code point, 0x10FFFF
MaxCodePoint == 1114111

\* The integers formatted: those around the ends of the code point range,
\* of the surrogates and of the one, two, three and four byte encodings
IntegerInputs ==
    (-3..3) \cup (60..90) \cup (125..130) \cup (2045..2050) \cup (55294..55297)
    \cup (57342..57345) \cup (65533..65538) \cup ((MaxCodePoint - 2)..(MaxCodePoint + 3))
    \cup {-2147483647, 2147483647}

\* a >> n
RECURSIVE ShiftRight(_, _)
ShiftRight(a, n) == IF n = 0 THEN a ELSE ShiftRight(a \div 2, n - 1)

\* a & b of two unsigned integers
RECURSIVE BitAnd(_, _)
BitAnd(a, b) ==
    IF a = 0 \/ b = 0 THEN 0
    ELSE (a % 2) * (b % 2) + 2 * BitAnd(a \div 2, b \div 2)

\* the mask the code applies, 1ull >> 32
ShiftedOne(value) == ShiftRight(1, 32)

\* static_cast<uint32_t>(static_cast<uint64_t>(value) >> 32) is not zero
HighSet(value) == ShiftRight(value, 32) # 0

\* static_cast<uint32_t>(static_cast<uint64_t>(value) & (1ull >> 32)), of a
\* value whose high order DWORD is zero
Low(value) == BitAnd(value, ShiftedOne(value))

\* a code point utf8 encodes: not a surrogate and not above 0x10FFFF
IsCodePointValid(cp) == cp <= MaxCodePoint /\ ~(55296 <= cp /\ cp <= 57343)

\* utf8::utf32to8 of one code point: its bytes
Utf8(cp) ==
    IF cp < 128 THEN <<cp>>
    ELSE IF cp < 2048 THEN <<192 + (cp \div 64), 128 + (cp % 64)>>
    ELSE IF cp < 65536
    THEN <<224 + (cp \div 4096), 128 + ((cp \div 64) % 64), 128 + (cp % 64)>>
    ELSE <<240 + (cp \div 262144), 128 + ((cp \div 4096) % 64), 128 + ((cp \div 64) % 64),
           128 + (cp % 64)>>

\* format_visitor::operator()(int64_t) with format type 'c' and no width
format_integer_c(value) ==
    IF HighSet(value) THEN Raised(ErrExceedsCodePoint)
    ELSE LET low == Low(value)
         IN  IF IsCodePointValid(low) THEN Value(Utf8(low))
             ELSE Raised(ErrUtf8Library)

\* an integer is formatted with %c
FormatInteger ==
    /\ UNCHANGED call_frame
    /\ fn = "format_integer"
    /\ fn' = "format_integer returned"
    /\ ret' = format_integer_c(args)
    /\ UNCHANGED args

\* ------------------------------------------------------------------------
\* The conflict an override raises (context.cc, resource_override::evaluate)
\* ------------------------------------------------------------------------

\* attributes of one override
MaxOverrideAttributes == 2

\* the undef value
Undef == [array |-> FALSE, items |-> <<>>]
is_undef(value) == ~value.array /\ value.items = <<>>

\* Where an attribute's name was written: the path of the tree and the line
NameContext(path, line) == <<path, line>>

\* the loop over _attributes that looks for a previously set attribute: the
\* position of the first one, 0 when none is set
RECURSIVE FirstPrevious(_, _, _)
FirstPrevious(attrs, attributes, k) ==
    IF k > Len(attributes) THEN 0
    ELSE IF attributes[k].name \in DOMAIN attrs THEN k
    ELSE FirstPrevious(attrs, attributes, k + 1)

NoException == [action |-> "", name |-> "", resource |-> NoResource, previous |-> <<>>]

\* the evaluation_exception thrown for the conflict: 'cannot <action>
\* attribute <name> from resource <type> that was previously set at
\* <path>:<line>'
ConflictException(cat, o) ==
    LET attrs == cat[o.type].attrs
        k == FirstPrevious(attrs, o.attributes, 1)
        attribute == o.attributes[k]
    IN  [action |-> IF attribute.op = "assign"
                    THEN IF is_undef(attribute.value) THEN "remove" ELSE "set"
                    ELSE "append",
         name |-> attribute.name,
         resource |-> o.type,
         previous |-> attrs[attribute.name].line]

\* The attributes an override may carry
OverrideAttributeInputs ==
    {Attr("assign", "mode", StringValue(<<"v", "2">>), NameContext("b.pp", 2)),
     Attr("assign", "mode", Undef, NameContext("b.pp", 3)),
     Attr("append", "mode", StringValue(<<"v", "3">>), NameContext("b.pp", 4)),
     Attr("assign", "owner", StringValue(<<"v", "4">>), NameContext("b.pp", 5)),
     Attr("append", "group", StringValue(<<"v", "5">>), NameContext("b.pp", 6))}

\* The attributes the target has when the override is evaluated
TargetAttributeInputs ==
    {NoAttrs,
     SetAttribute(NoAttrs, Attr("assign", "mode", StringValue(<<"v", "0">>), NameContext("a.pp", 1))),
     SetAttribute(SetAttribute(NoAttrs,
                     Attr("assign", "mode", StringValue(<<"v", "0">>), NameContext("a.pp", 1))),
                  Attr("assign", "owner", StringValue(<<"v", "1">>), NameContext("c.pp", 7)))}

\* The target's container, the override's scope and its attributes
OverrideCallInputs ==
    [attrs : TargetAttributeInputs,
     container : {NoResource, ClassMain, Res("class", <<"a">>)},
     scope : {NoScope, "top", "a", "b", "c"},
     attributes : UNION {[1..n -> OverrideAttributeInputs] : n \in 1..MaxOverrideAttributes}]

\* resource_override::evaluate on a catalog that holds the target
EvaluateOverride ==
    /\ UNCHANGED call_frame
    /\ fn = "override"
    /\ fn' = "override returned"
    /\ LET cat == [CatalogAdd([r \in {} |-> 0], FileX, args.container) EXCEPT
                      ![FileX].attrs = args.attrs]
           o == Override(FileX, args.attributes, args.scope)
           r == OverrideEvaluate(cat, o)
       IN  ret' = [attrs |-> r.cat[FileX].attrs,
                   err |-> r.err,
                   exception |-> IF r.err = ErrConflict THEN ConflictException(cat, o)
                                 ELSE NoException]
    /\ UNCHANGED args

\* ------------------------------------------------------------------------
\* Specifications
\* ------------------------------------------------------------------------

\* The environment with no call made, a fixed file system
EnvIdle == EnvInit /\ files["b.pp"] = Manifest(TRUE, TRUE, <<"b">>)

\* A compilation whose manifest declares classes, overrides and
\* relationships, and no defined type
Init ==
    /\ CtxInit
    /\ dt_body = [d \in Defs |-> EmptyBody]
    /\ StackInit
    /\ EnvIdle
    /\ NodeInit
    /\ LibIdle

Next ==
    \/ \E name \in ClassNameInputs : DeclareClass(name)
    \/ \E o \in OverrideInputs : AddOverride(o)
    \/ \E r \in RelationshipInputs : AddRelationship(r)
    \/ Finalize
    \/ \E uaf \in UafOutcomes : FinalizePass(uaf)
    \/ \E order \in Orders(AllTargets) : FinalizeFinish(order)

Spec == Init /\ [][Next]_vars

\* A compilation whose manifest declares defined types, with any bodies, and
\* collectors
InitFinalize ==
    /\ CtxInit
    /\ dt_body \in [Defs -> BodyChoices]
    /\ StackInit
    /\ EnvIdle
    /\ NodeInit
    /\ LibIdle

NextFinalize ==
    \/ \E d \in Defs, v \in BOOLEAN : DeclareDefinedType(d, v)
    \/ \E q \in (SUBSET Defs) \ {{}} : AddCollector(q)
    \/ Finalize
    \/ \E uaf \in UafOutcomes : FinalizePass(uaf)
    \/ \E order \in Orders(AllTargets) : FinalizeFinish(order)

SpecFinalize == InitFinalize /\ [][NextFinalize]_vars

\* Calls nested on one context's call stack
InitStack ==
    /\ CtxInit
    /\ dt_body = [d \in Defs |-> EmptyBody]
    /\ StackInit
    /\ EnvIdle
    /\ NodeInit
    /\ LibIdle

NextStack == PushFrame \/ PopFrame

SpecStack == InitStack /\ [][NextStack]_vars

\* Threads operating on one environment
InitEnv ==
    /\ CtxInit
    /\ dt_body = [d \in Defs |-> EmptyBody]
    /\ StackInit
    /\ EnvInit
    /\ NodeInit
    /\ LibIdle

NextEnv ==
    \E t \in Threads :
        \/ \E c \in CallInputs : Call(t, c[1], c[2])
        \/ Lock(t)
        \/ ImportInitialManifests(t)
        \/ ImportNextManifest(t)
        \/ ImportManifest(t)
        \/ FindClass(t)
        \/ ImportSourceParse(t)
        \/ ImportSourceScan(t)
        \/ ImportSourcePush(t)
        \/ ImportSourceWrite(t)

SpecEnv == InitEnv /\ [][NextEnv]_vars

\* Manifests with node statements scanned into a registry, and nodes
\* looked up in it
InitNodes ==
    /\ CtxInit
    /\ dt_body = [d \in Defs |-> EmptyBody]
    /\ StackInit
    /\ EnvIdle
    /\ NodeInit
    /\ LibIdle

NextNodes ==
    \/ \E statement \in NodeStatementInputs : ScanNode(statement)
    \/ \E name \in NodeNameInputs : FindNode(name)

SpecNodes == InitNodes /\ [][NextNodes]_vars

\* ------------------------------------------------------------------------
\* Properties
\* ------------------------------------------------------------------------

\* C1: context::finalize always terminates. Whatever the collectors and the
\* deferred defined types are, every pass of finalize's loop either leaves
\* the loop (at the fixed point, or with an exception: the 'maximum defined
\* type evaluations exceeded' error, an error raised by a body, or a fault)
\* or counts one more iteration, and the count of a finalize still in its
\* loop never exceeds max_iterations: the loop runs a bounded number of
\* passes, and it is left with that error when the bound is reached.
C1_FinalizeTerminates ==
    [][pc = "loop" =>
           \/ pc' \in {"post", "crashed"}
           \/ pc' = "failed" /\ error' = ErrBody
           \/ pc' = "failed" /\ error' = ErrMaxIterations /\ iteration = max_iterations
           \/ pc' = "loop" /\ iteration' = iteration + 1 /\ iteration' <= max_iterations]_vars

\* a manifest that kept declaring defined types was stopped by the guard
C1_Witness == pc = "failed" /\ error = ErrMaxIterations /\ Len(_defined_types) > max_iterations

\* Overrides that are still queued for a resource the catalog does not hold
Unresolved == {t \in AllTargets : _overrides[t] # <<>> /\ t \notin DOMAIN catalog}

\* C2 (as stated): an override whose target was never declared is dropped
\* silently at the end of finalize; finalize raises no error because of it.
C2_SilentDrop == ~(pc = "failed" /\ error = ErrNoResource)

\* C2: when finalize reaches its last phase with an override still queued
\* for a resource that is not in the catalog, finalize raises an evaluation
\* error ('resource does not exist in the catalog' unless a relationship or
\* another queued override raised first), clears nothing and does not
\* return; finalize returns only when every queued override has a target.
C2_UnresolvedOverrideRaises ==
    [][(pc = "post" /\ Unresolved # {}) =>
           /\ pc' = "failed"
           /\ error' \in {ErrNoResource, ErrConflict, ErrRelationship, ErrSelf}
           /\ _overrides' = _overrides
           /\ _classes' = _classes]_vars

\* finalize raised because of an override whose target was never declared
C2_Witness == pc = "failed" /\ error = ErrNoResource /\ Unresolved # {}

\* C3 (as stated): declaring a class is idempotent per catalog; the class
\* body is evaluated only by the first declare_class call for that class.
C3_BodyEvaluatedOnce == \A c \in KnownClasses : body_evals[c] <= 1

\* C5 (as stated): an override added while its target does not exist is
\* queued and applied when that resource is created, so no operation ends
\* normally with a resource in the catalog and overrides still queued for it.
C5_AppliedAtCreation ==
    (pc = "eval" /\ error = ErrNone) =>
        \A t \in AllTargets : t \in DOMAIN catalog => _overrides[t] = <<>>

\* A thread is inside the part of an operation that reads or writes the
\* registry, the parse cache or the initial manifests
Mutating(t) == thread[t].step \in {"body", "files", "scan", "push", "write"}

\* C4 (as stated): every environment operation that mutates shared state
\* holds the environment's mutex for its whole duration, so no two such
\* operations running on different threads ever overlap.
C4_MutatorsExcluded ==
    \A t1, t2 \in Threads : t1 # t2 => ~(Mutating(t1) /\ Mutating(t2))

\* C6 (as stated): the call stack never holds more than 1000 frames; a push
\* beyond the cap raises 'maximum stack depth reached' without pushing.
C6_DepthCapped == Len(_call_stack) <= MAX_STACK_DEPTH

IsRootTree(tree) == \E k \in 1..Len(ManifestRoot) : tree[1] = ManifestRoot[k]

\* C7 (as stated): whenever import_initial_manifests returns successfully,
\* its result contains the tree of every manifest file under the manifest
\* root, in filename order, whatever operations preceded the call.
C7_AllRootManifests ==
    \A t \in Threads :
        (result[t].op = "import_initial_manifests" /\ result[t].err = ErrNone) =>
            SelectSeq(result[t].trees, IsRootTree) =
                [k \in 1..Len(ManifestRoot) |-> Tree(ManifestRoot[k], 1)]

\* C8: each manifest path is parsed into a tree and scanned at most once
\* per environment; a path in the parse cache stays there with the same
\* tree and is neither parsed nor scanned again; and an import_manifest of
\* a cached path returns the cached tree and registers nothing.
C8_ParsedOnce ==
    [][/\ \A p \in Paths : parses'[p] <= 1 /\ scans'[p] <= 1
       /\ \A p \in DOMAIN _parsed :
              /\ p \in DOMAIN _parsed' /\ _parsed'[p] = _parsed[p]
              /\ parses'[p] = parses[p] /\ scans'[p] = scans[p]
       /\ \A t \in Threads :
              (/\ thread[t].op = "import_manifest" /\ thread[t].step = "body"
               /\ thread'[t].step = "idle"
               /\ thread[t].arg \in DOMAIN _parsed) =>
                  /\ result'[t].trees = <<_parsed[thread[t].arg]>>
                  /\ result'[t].err = ErrNone
                  /\ reg_classes' = reg_classes]_vars

\* two threads imported the same path: one parse, the same tree for both
C8_Witness ==
    /\ parses["a.pp"] = 1
    /\ \A t \in Threads : /\ result[t].op = "import_manifest" /\ result[t].arg = "a.pp"
                          /\ result[t].trees = <<Tree("a.pp", 1)>>

\* The candidate names of the node last looked up that some definition
\* matches, by a literal hostname or by a regex
Hitting ==
    {c \in NodeNames(found.node) :
        c \in DOMAIN _named_nodes \/ FirstRegex(_regex_nodes, c, 1) # 0}

\* C9 (as stated): find_node selects a definition with a matching literal
\* hostname whenever any candidate name matches a literal; a regex (the
\* first in insertion order that matches a candidate) only when no literal
\* matches; the default only when neither matches.
C9_LiteralFirst ==
    LET cand == NodeNames(found.node)
        lits == {c \in cand : c \in DOMAIN _named_nodes}
        rxs == {k \in 1..Len(_regex_nodes) : \E c \in cand : Search(_regex_nodes[k][1], c)}
    IN  found.node # <<>> =>
            IF lits # {} THEN found.index \in {_named_nodes[c] : c \in lits}
            ELSE IF rxs # {} THEN found.index = _regex_nodes[CHOOSE k \in rxs : \A j \in rxs : k <= j][2]
            ELSE found.index = _default_node_index

\* C9: find_node tries the candidate names from the most specific to the
\* least specific; the first name that a literal hostname or a regex matches
\* decides: its literal definition if there is one, else the first regex in
\* insertion order that matches that name; the default definition is
\* selected only when no candidate name matches anything.
C9_MostSpecificNameFirst ==
    found.node # <<>> =>
        IF Hitting = {} THEN found.index = _default_node_index
        ELSE LET best == CHOOSE c \in Hitting : \A d \in Hitting : Len(d) <= Len(c)
             IN  IF best \in DOMAIN _named_nodes
                 THEN found.index = _named_nodes[best] /\ found.name = best
                 ELSE found.index = _regex_nodes[FirstRegex(_regex_nodes, best, 1)][2]

\* a regex matching the full name won over a literal matching a shorter name
C9_Witness ==
    /\ found.node = <<"A", ".", "b">>
    /\ <<"a">> \in DOMAIN _named_nodes
    /\ found.name = <<"/", "b", "/">>

\* Two node statements share the default clause, a regex pattern, or a
\* hostname up to letter case
Overlap(s1, s2) ==
    \E i \in 1..Len(s1), j \in 1..Len(s2) :
        /\ s1[i].kind = s2[j].kind
        /\ \/ s1[i].kind = "default"
           \/ s1[i].kind = "regex" /\ s1[i].text = s2[j].text
           \/ s1[i].kind = "literal" /\ to_lower(s1[i].text) = to_lower(s2[j].text)

\* C10 (as stated): scanning a node statement that shares a hostname (up to
\* letter case), a regex pattern or the default clause with a registered
\* one raises 'conflicting node definition' and registers nothing, so no
\* two registered node statements overlap.
C10_ConflictsRejected ==
    \A i, j \in 1..Len(_nodes) : i < j => ~Overlap(_nodes[i], _nodes[j])

\* ------------------------------------------------------------------------
\* Specification: a scanner visiting definition statements
\* ------------------------------------------------------------------------

CoreIdle ==
    /\ CtxInit
    /\ dt_body = [d \in Defs |-> EmptyBody]
    /\ StackInit
    /\ EnvIdle
    /\ NodeInit

InitScan ==
    /\ CoreIdle
    /\ LibIdle

NextScan ==
    \E statement \in DefinitionInputs :
        \/ ScanClass(statement)
        \/ ScanDefinedType(statement)
        \/ ScanTypeAlias(statement)

SpecScan == InitScan /\ [][NextScan]_vars

\* the name is registered as a class, a defined type or a type alias
Registered(name) ==
    \/ registry_classes[name] # 0
    \/ registry_defined_types[name] # 0
    \/ _aliases[name] # 0

\* the sites the name was declared at
PriorSites(name) ==
    {registry_classes[name], registry_defined_types[name], _aliases[name]} \ {0}

\* C11: a class, defined type or type alias statement whose normalized name
\* is already registered as a class, a defined type or a type alias raises a
\* parse error that carries a prior declaration site of the name, and
\* registers nothing, whatever the two kinds are
C11_NameConflictsRejected ==
    [][n_scans' = n_scans + 1 /\ Registered(normalize(scanned'.name))
       => /\ scan_error'.message # ErrNone
          /\ scan_error'.site \in PriorSites(normalize(scanned'.name))
          /\ UNCHANGED <<registry_classes, registry_defined_types, _aliases>>]_vars

\* ------------------------------------------------------------------------
\* Specification: a format map built from a hash, then searched
\* ------------------------------------------------------------------------

InitFormat ==
    /\ CoreIdle
    /\ ScanInit
    /\ CallIdle
    /\ format_hash \in FormatHashes
    /\ _formats = <<>>
    /\ _element_format_map = NullPointer
    /\ ReplIdle
    /\ RpcIdle
    /\ MatchIdle
    /\ ModulesIdle
    /\ ResourcesIdle
    /\ UnwindIdle
    /\ DispatchIdle
    /\ AliasIdle

NextFormat ==
    \/ \E sorted \in Rearrangements(format_hash) : ConstructFormatMap(sorted)
    \/ \E value \in FormatValues : FindFormat(value)

SpecFormat == InitFormat /\ [][NextFormat]_vars

\* the entries of the hash whose type the value is an instance of
Matching(value) ==
    {k \in 1..Len(format_hash) : is_instance(format_hash[k][1], value)}

\* a type assignable to the other but not the other way round
StrictlyMoreSpecific(type, other) ==
    is_assignable(other, type) /\ ~is_assignable(type, other)

\* C12: find_format(v) returns the format of an entry whose type v is an
\* instance of, such that no other entry matching v has a strictly more
\* specific type; it returns nullptr only when no entry matches v
C12_MostSpecificFormat ==
    fn = "find_format" =>
        IF Matching(args) = {} THEN ret = "nullptr"
        ELSE \E k \in Matching(args) :
                /\ ret = format_hash[k][2]
                /\ \A other \in Matching(args) :
                      ~StrictlyMoreSpecific(format_hash[other][1], format_hash[k][1])

\* ------------------------------------------------------------------------
\* Specification: commands typed at the REPL's prompt
\* ------------------------------------------------------------------------

InitRepl ==
    /\ CoreIdle
    /\ ScanInit
    /\ CallIdle
    /\ FormatIdle
    /\ _buffer = <<>>
    /\ _count \in ReplStartCounts
    /\ _line = 1
    /\ _prompt = FormatPrompt(ReplNodeName, _count, 1)
    /\ repl_result = NoResult
    /\ repl_lines = <<>>
    /\ repl_parsed = "nothing"
    /\ n_evals = 0
    /\ RpcIdle
    /\ MatchIdle
    /\ ModulesIdle
    /\ ResourcesIdle
    /\ UnwindIdle
    /\ DispatchIdle
    /\ AliasIdle

NextRepl == \E source \in ReplInputs : Evaluate(source)

SpecRepl == InitRepl /\ [][NextRepl]_vars

\* the lines joined by "\n"
RECURSIVE Join(_)
Join(lines) ==
    IF lines = <<>> THEN <<>>
    ELSE IF Len(lines) = 1 THEN lines[1]
    ELSE lines[1] \o <<"\n">> \o Join(Tail(lines))

\* the text fails to parse only because it ends too early
EndsTooEarly(text) == ParseErrorOffset(text) = Len(text)

\* C13: when the text accumulated by the REPL fails to parse only because
\* the input ended, evaluate returns none, retains the text, increments line
\* and leaves count unchanged; and the text an evaluate call parses is the
\* lines retained since the last completed command and the new line, joined
\* by "\n", which is exactly the source of the result it returns
C13_IncompleteInputRetained ==
    [][n_evals' = n_evals + 1 /\ repl_parsed' # "nothing"
       => /\ repl_parsed' = Join(Append(repl_lines, SubSeq(repl_parsed', Len(_buffer) + 1, Len(repl_parsed'))))
          /\ repl_result'.returned = "result" => repl_result'.source = repl_parsed'
          /\ EndsTooEarly(repl_parsed')
                => /\ repl_result' = NoResult
                   /\ _buffer' = Append(repl_parsed', "\n")
                   /\ repl_lines' # <<>>
                   /\ Join(repl_lines') = repl_parsed'
                   /\ _line' = _line + 1
                   /\ _count' = _count]_vars

\* a command spread over three lines has been evaluated
C13_Witness ==
    /\ repl_result.returned = "result"
    /\ repl_result.source = <<"(", "\n", "x", "\n", ")">>
    /\ repl_result.exception = "none"

\* the count written with zeros in front up to three digits
PaddedCount(n) ==
    IF n < 10 THEN <<"0", "0">> \o Decimal(n)
    ELSE IF n < 100 THEN <<"0">> \o Decimal(n)
    ELSE Decimal(n)

\* C14: whenever evaluate returns a result, with a value or with the
\* exception of a syntax or evaluation error, the command is complete: the
\* buffer is empty, line is 1, count is one more than before the call, and
\* the prompt is "<node name>:<count, zero-padded to three digits>:<line>> "
C14_ResultCompletesCommand ==
    [][n_evals' = n_evals + 1 /\ repl_result'.returned = "result"
       => /\ _buffer' = <<>>
          /\ _line' = 1
          /\ _count' = _count + 1
          /\ _prompt' = ReplNodeName \o <<":">> \o PaddedCount(_count') \o <<":", "1", ">", " ">>]_vars

\* the tenth command was completed by a syntax error on its second line
C14_Witness ==
    /\ repl_result.returned = "result"
    /\ repl_result.exception = "syntax error"
    /\ Len(repl_result.source) > 2
    /\ _prompt = <<"t", "e", "s", "t", ":", "0", "1", "0", ":", "1", ">", " ">>

\* ------------------------------------------------------------------------
\* Specification: one remote Invoke call, with any server and connection
\* ------------------------------------------------------------------------

InitRpc ==
    /\ CoreIdle
    /\ LibIdle

NextRpc ==
    \/ \E ok \in BOOLEAN : WriteCall(ok)
    \/ \E response \in Responses : ReadResponse(response)
    \/ ReadEnd
    \/ \E outcome \in BlockOutcomes : Yield(outcome)
    \/ \E ok \in BOOLEAN : WriteContinuation(ok)
    \/ \E status \in Statuses : Finish(status)

SpecRpc == InitRpc /\ [][NextRpc]_vars

Count(messages, Test(_)) == Cardinality({k \in 1..Len(messages) : Test(messages[k])})

IsYield(response) == response = "yield"
IsContinuation(request) == request.kind = "continuation"

YieldsReceived == Count(rpc_received, IsYield)
ContinuationsWritten == Count(rpc_sent, IsContinuation)

\* C15: during a remote Invoke call every Yield received is answered by
\* exactly one Continuation, carrying a result or an exception, written
\* before the client reads the next server message (the client reads, and
\* finishes the stream, only with as many continuations written as yields
\* received), and no Continuation is written that does not answer a Yield
C15_YieldAnsweredOnce ==
    /\ ContinuationsWritten <= YieldsReceived
    /\ rpc_pc \in {"read", "finish", "returned"} => ContinuationsWritten = YieldsReceived
    /\ \A k \in 1..Len(rpc_sent) :
          /\ (k = 1) = (rpc_sent[k] = CallRequest)
          /\ k > 1 => /\ rpc_sent[k].kind = "continuation"
                      /\ rpc_sent[k].carries \in {"result", "exception"}
                      /\ Len(rpc_received) >= k - 1
                      /\ rpc_received[k - 1] = "yield"

\* two yields were answered, one with the block's value and one with an
\* exception, and the server's next message was read
C15_Witness ==
    /\ Len(rpc_received) = 3
    /\ Len(rpc_sent) = 3
    /\ rpc_sent[2].carries = "result"
    /\ rpc_sent[3].carries = "exception"

\* C16: a remote Invoke call returns a value only if the server sent a
\* Result message; a failed write, a lost connection, an Exception message,
\* an unrecognized message, a final status that is not OK and the end of
\* the stream without a result each make the call raise an evaluation error
C16_ValueOnlyFromResult ==
    /\ rpc_pc = "returned" =>
          /\ rpc_received # <<>>
          /\ rpc_received[Len(rpc_received)] = "result"
          /\ rpc_lost = "no"
          /\ rpc_status = "OK"
          /\ rpc_raised = ErrNone
    /\ rpc_pc = "raised" => rpc_raised # ErrNone
    /\ /\ rpc_pc \notin {"start", "read", "yield", "write", "finish"}
       /\ \/ rpc_lost # "no"
          \/ rpc_status \notin {"none", "OK"}
          \/ \E k \in 1..Len(rpc_received) : rpc_received[k] \in {"exception", "unrecognized"}
          \/ \A k \in 1..Len(rpc_received) : rpc_received[k] # "result"
       => rpc_pc = "raised" /\ rpc_raised # ErrNone

\* the stream ended after an answered yield without a result, the final
\* status was OK, and the call raised
C16_Witness ==
    /\ rpc_pc = "raised"
    /\ rpc_lost = "read"
    /\ rpc_status = "OK"
    /\ YieldsReceived = 1
    /\ rpc_raised = ErrUnexpectedResponse

\* ------------------------------------------------------------------------
\* Specification: regex matches and closures in nested match scopes
\* ------------------------------------------------------------------------

InitMatch ==
    /\ CoreIdle
    /\ LibIdle

NextMatch ==
    \/ PushMatchScope
    \/ PopMatchScope
    \/ \E captures \in CaptureInputs, fresh \in Addresses : Set(captures, fresh)
    \/ \E k \in 1..MaxScopes : Capture(k)
    \/ Release

SpecMatch == InitMatch /\ [][NextMatch]_vars

\* the vector of the innermost match scope is shared with a closure
SharedWithClosure ==
    /\ _match_stack # <<>>
    /\ \E c \in 1..Len(closures) : closures[c].scope = _match_stack[Len(_match_stack)]

\* C17: setting new captures in a match scope whose vector is shared with a
\* closure leaves the vector the closure sees unchanged; the scope receives
\* a fresh vector with the new captures, and every closure still reads the
\* captures that were current when it captured its scope
C17_CapturedScopeSnapshotted ==
    [][n_sets' = n_sets + 1 /\ SharedWithClosure
       => /\ \A c \in 1..Len(closures) :
                /\ closures'[c] = closures[c]
                /\ match_heap'[closures[c].scope] = match_heap[closures[c].scope]
                /\ match_heap'[closures[c].scope] = closures[c].seen
          /\ LET back == Len(_match_stack)
             IN  /\ _match_stack'[back] # _match_stack[back]
                 /\ match_heap[_match_stack'[back]] = FreeStore
                 /\ match_heap'[_match_stack'[back]].items \in CaptureInputs
                 /\ \A c \in 1..Len(closures) : closures[c].scope # _match_stack'[back]]_vars

\* a closure captured the scope holding <<"a">>, the scope was then set to
\* <<"b", "c">>, and the closure's vector still holds <<"a">>
C17_Witness ==
    /\ n_sets = 2
    /\ closures # <<>>
    /\ closures[1].seen = Vector(<<"a">>)
    /\ match_heap[closures[1].scope] = Vector(<<"a">>)
    /\ _match_stack # <<>>
    /\ _match_stack[Len(_match_stack)] # NullScope
    /\ _match_stack[Len(_match_stack)] # closures[1].scope
    /\ lookup(1) = "c"

\* ------------------------------------------------------------------------
\* Specification: the product of two integers
\* ------------------------------------------------------------------------

\* everything but the function called at its initial value
LibIdleButCall ==
    /\ ScanInit
    /\ FormatIdle
    /\ ReplIdle
    /\ RpcIdle
    /\ MatchIdle
    /\ ModulesIdle
    /\ ResourcesIdle
    /\ UnwindIdle
    /\ DispatchIdle
    /\ AliasIdle

InitMultiply ==
    /\ CoreIdle
    /\ LibIdleButCall
    /\ fn = "multiply"
    /\ args \in Ints \X Ints
    /\ ret = NotCalled

NextMultiply == Multiply

SpecMultiply == InitMultiply /\ [][NextMultiply]_vars

\* C18: a * b raises an arithmetic overflow or underflow error if and only
\* if the mathematical product lies outside the range of the integers;
\* otherwise it returns exactly the mathematical product
C18_ProductOrOverflow ==
    fn = "multiply returned" =>
        LET product == args[1] * args[2]
        IN  IF product < IntMin \/ product > IntMax
            THEN ret.raised \in {ErrOverflow, ErrUnderflow}
            ELSE ret = Value(product)

\* the least integer times -1 raised, and so did a product below the range
C18_Witness ==
    /\ fn = "multiply returned"
    /\ \/ args = <<IntMin, -1>> /\ ret.raised = ErrOverflow
       \/ args = <<IntMax, -2>> /\ ret.raised = ErrUnderflow

\* ------------------------------------------------------------------------
\* Specification: a heredoc lexed
\* ------------------------------------------------------------------------

InitHeredoc ==
    /\ CoreIdle
    /\ LibIdleButCall
    /\ fn = "parse_heredoc"
    /\ args \in HeredocInputs
    /\ ret = NotCalled

NextHeredoc == ParseHeredoc

SpecHeredoc == InitHeredoc /\ [][NextHeredoc]_vars

\* the first line that holds the end tag: the line that ends the heredoc
EndLine(lines) ==
    LET ends == {k \in 1..Len(lines) : SearchLine(lines[k], [has_margin |-> FALSE, remove_break |-> FALSE]).found}
    IN  IF ends = {} THEN 0 ELSE CHOOSE k \in ends : \A h \in ends : k <= h

\* the markers and the margin of a line alone
MarkersOf(line) == SearchLine(line, [has_margin |-> FALSE, remove_break |-> FALSE])

\* C19: the heredoc's text has its final line break removed if and only if
\* the line with the end tag carries "-", and its margin stripped if and
\* only if that line carries "|"; no other line's markers count
C19_MarkersFromEndLine ==
    fn = "parse_heredoc returned" /\ EndLine(args) > 0 =>
        LET last == EndLine(args)
            markers == MarkersOf(args[last])
            body == SubSeq(args, 1, last - 1)
            text == extract_string(body, IF markers.has_margin THEN markers.margin ELSE 0)
        IN  /\ ret.raised = ErrNone
            /\ ret.text = IF markers.remove_break THEN RemoveBreak(text) ELSE text

\* ------------------------------------------------------------------------
\* Specification: a source lexed
\* ------------------------------------------------------------------------

InitLex ==
    /\ CoreIdle
    /\ LibIdleButCall
    /\ fn = "lex"
    /\ args \in LexInputs
    /\ ret = NotCalled

NextLex == Lex

SpecLex == InitLex /\ [][NextLex]_vars

\* the tokens that may not be followed by a regex: the literals, the names
\* and the closing brackets
NotBeforeRegex == {"number", "invalid_number", "regex", "name", ")"}

\* a "/" follows the token, after spaces or at once
SlashFollows(text, token) ==
    LET at == token.last + 1 + Run(text, token.last + 1, {" "})
    IN  at <= Len(text) /\ text[at] = "/"

InitModules ==
    /\ CoreIdle
    /\ LibIdle

NextModules == \E listing \in Listings \cup {NotADirectory} : AddModules(listing)

SpecModules == InitModules /\ [][NextModules]_vars

ModuleNames(modules) == {modules[i].name : i \in 1..Len(modules)}

\* the directory searched by this step holds a subdirectory named "lib"
SearchedLib ==
    /\ Len(module_dirs') = Len(module_dirs) + 1
    /\ module_dirs'[Len(module_dirs')] # NotADirectory
    /\ \E k \in 1..Len(DirectoryNames) :
          DirectoryNames[k] = "lib" /\ module_dirs'[Len(module_dirs')][k] # "absent"

\* this step logged the warning about the "lib" subdirectory of the directory
WarnedOfLib ==
    \E i \in (Len(module_log) + 1)..Len(module_log') :
        module_log'[i] = Warning(WarnLib, "lib", <<Len(module_dirs'), "lib">>)

\* C21 as stated: a subdirectory named "lib" is skipped, a warning is
\* logged and no module named "lib" is added to the environment
C21_LibSkipped ==
    [][SearchedLib => WarnedOfLib /\ "lib" \notin ModuleNames(_modules')]_vars

\* C21: a subdirectory named "lib" is warned about and not skipped: the
\* environment has a module named "lib" afterwards, the one of this
\* directory unless an earlier directory gave one
C21_LibWarnedAndAdded ==
    [][SearchedLib =>
          /\ WarnedOfLib
          /\ "lib" \in ModuleNames(_modules')
          /\ "lib" \notin ModuleNames(_modules)
                => [name |-> "lib", directory |-> Len(module_dirs')] \in
                       {_modules'[i] : i \in 1..Len(_modules')}]_vars

\* a directory holding "lib" was searched and the module "lib" of it was added
C21_Witness ==
    /\ module_dirs # <<>>
    /\ module_dirs[1] # NotADirectory
    /\ module_dirs[1][3] # "absent"
    /\ \E i \in 1..Len(module_log) : module_log[i].message = WarnLib
    /\ \E i \in 1..Len(_modules) : _modules[i] = [name |-> "lib", directory |-> 1]

\* ------------------------------------------------------------------------
\* Specification: an integer formatted as a character
\* ------------------------------------------------------------------------

InitFormatInteger ==
    /\ CoreIdle
    /\ LibIdleButCall
    /\ fn = "format_integer"
    /\ args \in IntegerInputs
    /\ ret = NotCalled

NextFormatInteger == FormatInteger

SpecFormatInteger == InitFormatInteger /\ [][NextFormatInteger]_vars

\* C22: an integer formatted with 'c' yields the UTF-8 encoding of the code
\* point of that number, and an integer outside 0..0x10FFFF raises a format
\* error
C22_CodePointOrError ==
    fn = "format_integer returned" =>
        IF 0 <= args /\ args <= MaxCodePoint
        THEN IsCodePointValid(args) => ret.raised = ErrNone /\ ret.value = Utf8(args)
        ELSE ret.raised \in {ErrExceedsCodePoint, ErrInvalidCodePoint}

\* ------------------------------------------------------------------------
\* Specification: node definitions scanned and looked up through the
\* environment
\* ------------------------------------------------------------------------

NextNodeDefinition ==
    \/ \E statement \in NodeStatementInputs : ScanNode(statement)
    \/ \E name \in NodeNameInputs : FindNodeDefinition(name)

SpecNodeDefinition == InitNodes /\ [][NextNodeDefinition]_vars

\* the registered node statement has a hostname for the node: the default,
\* a regex found in a candidate name, or a candidate name itself
DefinitionMatches(statement, node) ==
    \E k \in 1..Len(statement) :
        \/ statement[k].kind = "default"
        \/ /\ statement[k].kind = "regex"
           /\ \E c \in NodeNames(node) : Search(statement[k].text, c)
        \/ /\ statement[k].kind = "literal"
           /\ to_lower(statement[k].text) \in NodeNames(node)

\* some node definition exists for the node last looked up
DefinitionExists == Hitting # {} \/ _default_node_index # 0

InitElementFormat ==
    /\ CoreIdle
    /\ ScanInit
    /\ CallIdle
    /\ format_hash \in {h \in FormatHashes : Len(h) <= MaxElementFormats}
    /\ _formats = <<>>
    /\ _element_format_map = NullPointer
    /\ ReplIdle
    /\ RpcIdle
    /\ MatchIdle
    /\ ModulesIdle
    /\ ResourcesIdle
    /\ UnwindIdle
    /\ DispatchIdle
    /\ AliasIdle

NextElementFormat ==
    \/ \E specification \in FormatSpecifications, sorted \in Rearrangements(format_hash) :
          ConstructFormat(specification, sorted)
    \/ \E value \in FormatValues : FindElementFormat(value)

SpecElementFormat == InitElementFormat /\ [][NextElementFormat]_vars

\* C24 as stated: for every constructed format and every value,
\* find_element_format returns the matching element format or nullptr when
\* the format has no element format for the value; it never fails
C24_ElementFormatOrNull ==
    fn = "find_element_format" =>
        LET matching == IF _element_format_map = OwnsFormats THEN Matching(args) ELSE {}
        IN  IF matching = {} THEN ret = "nullptr"
            ELSE \E k \in matching : ret = format_hash[k][2]

\* ------------------------------------------------------------------------
\* Specification: threads reading the registry through the environment
\* ------------------------------------------------------------------------

NextEnvFind ==
    \E t \in Threads :
        \/ \E c \in FindInputs : CallFind(t, c[1], c[2])
        \/ Lock(t)
        \/ FindClass(t)
        \/ FindDefinition(t)
        \/ FindOperator(t)

SpecEnvFind == InitEnv /\ [][NextEnvFind]_vars

\* thread t is inside a find operation, where the registry is read
Reading(t) == thread[t].step = "body"

\* C25 as stated: every read of the registry made through the environment,
\* the operator lookups included, is performed while holding the mutex
C25_AllReadsLocked ==
    \A t \in Threads : Reading(t) => _mutex = t

\* C25: the reads made by find_class, find_defined_type, find_type_alias,
\* find_resource_type, find_function and find_node_definition are performed
\* while holding the mutex; find_binary_operator and find_unary_operator
\* read the registry without taking it
C25_DefinitionReadsLocked ==
    \A t \in Threads :
        Reading(t) =>
            IF thread[t].op \in {"find_binary_operator", "find_unary_operator"}
            THEN _mutex # t
            ELSE _mutex = t

\* one thread reads a class under the mutex while the other reads an
\* operator without it
C25_Witness ==
    \E t1, t2 \in Threads :
        /\ Reading(t1) /\ thread[t1].op = "find_class" /\ _mutex = t1
        /\ Reading(t2) /\ thread[t2].op = "find_binary_operator"

\* ------------------------------------------------------------------------
\* Specification: a compilation on a catalog that holds a second stage
\* ------------------------------------------------------------------------

StagePre == Res("stage", <<"p", "r", "e">>)

InitStages ==
    /\ CtxStart(CatalogAdd(InitialCatalog, StagePre, ClassMain))
    /\ dt_body = [d \in Defs |-> EmptyBody]
    /\ StackInit
    /\ EnvIdle
    /\ NodeInit
    /\ LibIdle

SpecStages == InitStages /\ [][Next]_vars

\* the stages the class may be contained by: Stage[main], and the stage its
\* 'stage' attribute names
StagesOf(class) ==
    {StageMain}
    \cup IF "stage" \in DOMAIN catalog[class].attrs /\ ~catalog[class].attrs["stage"].value.array
         THEN {Res("stage", catalog[class].attrs["stage"].value.items[1])}
         ELSE {}

InitOverride ==
    /\ CoreIdle
    /\ LibIdleButCall
    /\ fn = "override"
    /\ args \in OverrideCallInputs
    /\ ret = NotCalled

NextOverride == EvaluateOverride

SpecOverride == InitOverride /\ [][NextOverride]_vars

\* the scopes above a scope, the top scope included
RECURSIVE Ancestors(_)
Ancestors(scope) ==
    IF scope = NoScope \/ ScopeParent(scope) = NoScope THEN {}
    ELSE {ScopeParent(scope)} \cup Ancestors(ScopeParent(scope))

\* the override comes from a scope, and no scope above it belongs to the
\* resource that contains the target
OutsideContainer(call) ==
    /\ call.scope # NoScope
    /\ \A s \in Ancestors(call.scope) : ScopeResource(s) # call.container

\* the attributes of the override that the target already has
PreviouslySet(call) ==
    {k \in 1..Len(call.attributes) : call.attributes[k].name \in DOMAIN call.attrs}

\* C27: an override from a scope none of whose ancestors belongs to the
\* target's container fails with an evaluation error whenever it sets,
\* removes or appends an attribute the target already has; the target is
\* left as it was and the error names where that attribute was set
C27_ConflictOutsideContainer ==
    (fn = "override returned" /\ OutsideContainer(args) /\ PreviouslySet(args) # {}) =>
        /\ ret.err = ErrConflict
        /\ ret.attrs = args.attrs
        /\ \E k \in PreviouslySet(args) :
              LET attribute == args.attributes[k]
              IN  /\ ret.exception.name = attribute.name
                  /\ ret.exception.previous = args.attrs[attribute.name].line
                  /\ ret.exception.action =
                        IF attribute.op = "append" THEN "append"
                        ELSE IF is_undef(attribute.value) THEN "remove" ELSE "set"

\* an override inside class b removed the mode that a.pp line 1 had set on
\* a resource of no class: the error names a.pp:1
C27_Witness ==
    /\ fn = "override returned"
    /\ args.scope = "b"
    /\ args.container = NoResource
    /\ ret.err = ErrConflict
    /\ ret.exception.action = "remove"
    /\ ret.exception.previous = NameContext("a.pp", 1)

\* ------------------------------------------------------------------------
\* Specification: threads importing manifests, without import_source
\* ------------------------------------------------------------------------

NextImports ==
    \E t \in Threads :
        \/ \E c \in {d \in CallInputs : d[1] # "import_source"} : Call(t, c[1], c[2])
        \/ Lock(t)
        \/ ImportInitialManifests(t)
        \/ ImportNextManifest(t)
        \/ ImportManifest(t)
        \/ FindClass(t)

SpecImports == InitEnv /\ [][NextImports]_vars

\* the last operation of thread t was an import_initial_manifests that
\* returned
ImportedInitial(results, t) ==
    results[t].op = "import_initial_manifests" /\ results[t].err = ErrNone

InitResources ==
    /\ CoreIdle
    /\ LibIdle

NextResources == \E expr \in ResourceExpressions : EvaluateResourceExpression(expr)

SpecResources == InitResources /\ [][NextResources]_vars

\* the string titles of a title value, in the order they are declared
RECURSIVE Leaves(_)
RECURSIVE LeavesOfEach(_, _)
LeavesOfEach(items, k) ==
    IF k > Len(items) THEN <<>> ELSE Leaves(items[k]) \o LeavesOfEach(items, k + 1)

Leaves(title) ==
    IF title.kind = "array" THEN LeavesOfEach(title.items, 1) ELSE <<title>>

\* the titles of all the bodies of an expression, in order, and the body of each
RECURSIVE LeavesOfBodies(_, _)
LeavesOfBodies(expr, k) ==
    IF k > Len(expr.titles)
    THEN <<>>
    ELSE [i \in 1..Len(Leaves(expr.titles[k])) |->
             [title |-> Leaves(expr.titles[k])[i], body |-> k]]
         \o LeavesOfBodies(expr, k + 1)

EntriesOf(resources, identity) ==
    {i \in 1..Len(resources) :
        Identity(resources[i].type_name, resources[i].title) = identity}

Declared(expr) == LeavesOfBodies(expr, 1)

\* some title of the expression is a string naming a resource the catalog
\* holds already, or one the expression itself declared before it
Repeats(expr, resources) ==
    \E i \in 1..Len(Declared(expr)) :
        /\ Declared(expr)[i].title.kind = "string"
        /\ \/ EntriesOf(resources, Identity(expr.type, Declared(expr)[i].title.text)) # {}
           \/ \E j \in 1..(i - 1) : Declared(expr)[j].title = Declared(expr)[i].title

\* nothing but a repeated identity can make the expression fail: it is not
\* virtual or exported, its titles are non-empty strings, its attribute is
\* assigned
OnlyRepeatsFail(expr) ==
    /\ expr.status = "realized"
    /\ expr.op \in {"none", "="}
    /\ \A i \in 1..Len(Declared(expr)) :
          Declared(expr)[i].title.kind = "string" /\ Declared(expr)[i].title.text # ""

Identities == {Identity(t, title) : t \in {"file", "user"}, title \in {"a", "b"}}

\* C29: the catalog never holds two resources of the same identity (type
\* name, title): a resource expression declaring an identity that exists,
\* in the catalog or earlier in the expression itself (in another body or in
\* the same array title), fails with the "previously declared" error, and no
\* second entry of the identity is added.
C29_OneResourcePerIdentity ==
    [][ /\ \A identity \in Identities :
              Cardinality(EntriesOf(_resources', identity)) <= 1
        /\ \A i \in 1..Len(_resources') :
              Identity(_resources'[i].type_name, _resources'[i].title) \in Identities
        /\ (OnlyRepeatsFail(args') /\ Repeats(args', _resources))
              => ret'.raised = ErrPreviouslyDeclared ]_vars

\* an array title that names the same resource twice was declared: the error
\* was raised and the catalog holds the resource once
C29_Witness ==
    /\ fn = "resource_expression returned"
    /\ args.titles = <<Array(<<String("b"), Array(<<String("b")>>)>>)>>
    /\ ret.raised = ErrPreviouslyDeclared
    /\ Cardinality(EntriesOf(_resources, Identity(args.type, "b"))) = 1

\* ------------------------------------------------------------------------
\* Specification: operations that push a frame, returning and raising
\* ------------------------------------------------------------------------

InitUnwind == InitStack

NextUnwind ==
    \/ ConstructFrame
    \/ ConstructMatchScope
    \/ Raise
    \/ Destroy
    \/ Catch

SpecUnwind == InitUnwind /\ [][NextUnwind]_vars

\* this step ends an operation that pushed a frame: its scoped_stack_frame
\* is destroyed
OperationFinishes ==
    /\ Len(automatic') < Len(automatic)
    /\ Innermost[1] = "scoped_stack_frame"

\* this step is a push refused at the depth cap: the operation ends in the
\* constructor of its frame
PushRefused == stack_error = ErrNone /\ stack_error' = ErrStackDepth

\* C30: error paths always unwind: when an operation that pushed a stack
\* frame finishes, by returning or with an exception in flight, the call
\* stack and the match scope stack have the depths they had when it started;
\* a push refused at the depth cap leaves both depths as they were.
C30_StacksUnwound ==
    [][ /\ OperationFinishes =>
             /\ Len(_call_stack') = Innermost[2]
             /\ Len(_match_stack') = Innermost[3]
        /\ PushRefused =>
             /\ Len(_call_stack') = Len(_call_stack)
             /\ Len(_match_stack') = Len(_match_stack) ]_vars

\* an operation, nested in operations whose bodies opened match scopes, made
\* a call refused at the depth cap and has finished with that exception in
\* flight
C30_Witness ==
    /\ stack_error = ErrStackDepth
    /\ Len(_call_stack) = MAX_STACK_DEPTH
    /\ Len(_match_stack) = Len(_call_stack) + 2
    /\ Len(automatic) = Len(_match_stack)

\* ------------------------------------------------------------------------
\* Specification: the lexer's iterator passing over a source with heredocs
\* ------------------------------------------------------------------------

InitIterator ==
    /\ CoreIdle
    /\ LibIdleButCall
    /\ fn = "lex"
    /\ args \in IteratorSources
    /\ ret = lexer_iterator(1)

NextIterator == LexCharacter \/ LexHeredoc

SpecIterator == InitIterator /\ [][NextIterator]_vars

\* the line breaks before the character at base
RECURSIVE LineBreaksBefore(_, _)
LineBreaksBefore(source, base) ==
    IF base <= 1 THEN 0
    ELSE LineBreaksBefore(source, base - 1) + (IF source[base - 1] = "\n" THEN 1 ELSE 0)

\* C31: the iterator's offset and line are the byte offset and the 1-based
\* line number of the character it points at, also right after it skipped
\* the lines of a heredoc.
C31_PositionIsTrue ==
    fn = "lex" =>
        /\ ret.offset = ret.base - 1
        /\ ret.line = 1 + LineBreaksBefore(args, ret.base)

\* the iterator has skipped the two lines of a heredoc and points at the
\* character after them, on line 4
C31_Witness ==
    /\ fn = "lex"
    /\ args = HeredocToken \o <<"\n", "x", "\n", "E", "\n", "x">>
    /\ ret.base = 10
    /\ ret.line = 4

\* ------------------------------------------------------------------------
\* Specification: calls of a built-in function at any depth of the call stack
\* ------------------------------------------------------------------------

InitDispatch ==
    /\ CtxInit
    /\ dt_body = [d \in Defs |-> EmptyBody]
    /\ StackInit
    /\ EnvIdle
    /\ NodeInit
    /\ ScanInit
    /\ CallIdle
    /\ FormatIdle
    /\ ReplIdle
    /\ RpcIdle
    /\ MatchIdle
    /\ ModulesIdle
    /\ ResourcesIdle
    /\ UnwindIdle
    /\ _dispatch_descriptors = <<>>
    /\ _omit_frame \in BOOLEAN
    /\ dispatched = NotDispatched
    /\ AliasIdle

NextDispatch ==
    \/ PushFrame
    \/ PopFrame
    \/ \E signature \in SignatureInputs \cup {InvalidSignature} : Add(signature)
    \/ \E call \in CallInputKinds : Dispatch(call)

SpecDispatch == InitDispatch /\ [][NextDispatch]_vars

\* the signatures, in registration order, that can accept the call
Accepting(call) ==
    {k \in 1..Len(_dispatch_descriptors) : call \in _dispatch_descriptors[k].signature}

FirstAccepting(call) ==
    CHOOSE k \in Accepting(call) : \A j \in Accepting(call) : k <= j

\* C32 as stated: a call some signature can accept runs the callback of the
\* first such signature, once, and no other; a call none accepts runs no
\* callback and raises an evaluation error.
C32_FirstSignatureWins ==
    [][ dispatched' # dispatched =>
          IF Accepting(dispatched'.call) # {}
          THEN /\ dispatched'.invoked = <<FirstAccepting(dispatched'.call)>>
               /\ dispatched'.raised = ErrNone
          ELSE /\ dispatched'.invoked = <<>>
               /\ dispatched'.raised # ErrNone ]_vars

\* C32 as the code has it: the first accepting signature's callback runs,
\* once and alone, when the function omits its frame or the frame can be
\* pushed; a call made with the call stack past its cap raises the depth
\* error and runs no callback; a call none accepts runs no callback and
\* raises an evaluation error.
C32_FirstSignatureWinsBelowCap ==
    [][ dispatched' # dispatched =>
          IF Accepting(dispatched'.call) = {}
          THEN /\ dispatched'.invoked = <<>>
               /\ dispatched'.raised = ErrCannotDispatch
          ELSE IF ~_omit_frame /\ Len(_call_stack) > MAX_STACK_DEPTH
          THEN /\ dispatched'.invoked = <<>>
               /\ dispatched'.raised = ErrStackDepth
          ELSE /\ dispatched'.invoked = <<FirstAccepting(dispatched'.call)>>
               /\ dispatched'.raised = ErrNone ]_vars

\* a call that both signatures accept was made with the call stack past its
\* cap: it raised the depth error and no callback ran
C32_Witness ==
    /\ Len(_dispatch_descriptors) = 2
    /\ _dispatch_descriptors[1].signature = {"Integer"}
    /\ _dispatch_descriptors[2].signature = {"Integer", "String"}
    /\ dispatched.call = "Integer"
    /\ dispatched.invoked = <<>>
    /\ dispatched.raised = ErrStackDepth
    /\ Len(_call_stack) > MAX_STACK_DEPTH

\* ------------------------------------------------------------------------
\* The passes of a finalization
\* ------------------------------------------------------------------------

\* the passes of evaluate_defined_types this finalization has run to their
\* end: the guard counts each after it ran
PassesRun == iteration

\* C33: one finalization never runs the defined type evaluation pass more
\* than max_iterations times; it raises the max-iterations error instead of
\* running a further pass.
C33_AtMostMaxPasses ==
    /\ PassesRun <= max_iterations
    /\ error = ErrMaxIterations => PassesRun = max_iterations

\* ------------------------------------------------------------------------
\* Specification: a finalization whose defined type bodies declare instances
\* of another defined type and add collectors
\* ------------------------------------------------------------------------

NumDeferredDefs == 2

DeferredDefs == 1..NumDeferredDefs

\* the bodies of the first defined type: any of them may declare one instance
\* of the second, realized or virtual, and add a collector; those of the
\* second add a collector or do nothing
DeferredBodies ==
    { body \in [DeferredDefs -> [fails : {FALSE},
                                 declares : {"none", "realized", "virtual"},
                                 definition : {NumDeferredDefs},
                                 collects : SUBSET DeferredDefs]] :
        body[NumDeferredDefs].declares = "none" }

InitDeferred ==
    /\ CtxInit
    /\ dt_body \in DeferredBodies
    /\ StackInit
    /\ EnvIdle
    /\ NodeInit
    /\ LibIdle

NextDeferred ==
    \/ \E d \in DeferredDefs, v \in BOOLEAN : DeclareDefinedType(d, v)
    \/ Finalize
    \/ \E uaf \in UafOutcomes : FinalizePass(uaf)
    \/ \E order \in Orders(AllTargets) : FinalizeFinish(order)

SpecDeferred == InitDeferred /\ [][NextDeferred]_vars

\* C34: when the loop of finalize ends at its fixed point, every deferred
\* defined type instance whose resource is realized, from its declaration or
\* by a collector since, has had its body evaluated exactly once, and no
\* instance whose resource is virtual has been evaluated, at any time.
C34_RealizedEvaluatedOnce ==
    /\ \A i \in 1..Len(_defined_types) :
          /\ dt_evals[i] <= 1
          /\ i \in dt_virtual => dt_evals[i] = 0
    /\ pc = "post" =>
          \A i \in 1..Len(_defined_types) : i \notin dt_virtual => dt_evals[i] = 1

\* ------------------------------------------------------------------------
\* Imports that fail
\* ------------------------------------------------------------------------

\* C35: a failed import leaves no trace: a manifest that does not parse or
\* validate is not in the parse cache, and no import of it returns a syntax
\* tree.
C35_FailedImportNotCached ==
    /\ \A path \in DOMAIN _parsed : files[path].parses /\ files[path].valid
    /\ \A t \in Threads :
          (result[t].op = "import_manifest" /\ result[t].err = ErrNone)
             => files[result[t].arg].parses /\ files[result[t].arg].valid

\* ------------------------------------------------------------------------
\* Class declarations that raise
\* ------------------------------------------------------------------------

\* the class whose body raises whenever it is evaluated
FailingClass == Res("class", <<"c">>)

\* C36: a declare_class that raises does not record the class as declared:
\* declare_class returns a class only when its body has been evaluated to
\* completion, so it never returns the class whose body always raises.
C36_FailedClassNotDeclared ==
    ~(error = ErrNone /\ returned = FailingClass)

\* ------------------------------------------------------------------------
\* The REPL's count
\* ------------------------------------------------------------------------

\* C37: the REPL's count changes only when an evaluate call returns a
\* result, and then by one; an evaluate call that returns none, also one
\* given an empty input, leaves the count unchanged.
C37_CountOfCompletedCommands ==
    [][n_evals' = n_evals + 1
       => /\ repl_result'.returned = "result" => _count' = _count + 1
          /\ repl_result' = NoResult => _count' = _count]_vars

\* ------------------------------------------------------------------------
\* Resolving a type alias that fails (context::resolve)
\* ------------------------------------------------------------------------

InitAlias ==
    /\ CtxInit
    /\ dt_body = [d \in Defs |-> EmptyBody]
    /\ StackInit
    /\ EnvIdle
    /\ NodeInit
    /\ ScanInit
    /\ CallIdle
    /\ FormatIdle
    /\ ReplIdle
    /\ RpcIdle
    /\ MatchIdle
    /\ ModulesIdle
    /\ ResourcesIdle
    /\ UnwindIdle
    /\ DispatchIdle
    /\ AliasIdle

NextAlias ==
    \/ PushFrame
    \/ PopFrame
    \/ \E alias \in AliasNames : Resolve(alias)

SpecAlias == InitAlias /\ [][NextAlias]_vars

AliasErrors == {ErrNotAType, ErrNotReal}

\* C38: when resolving an alias has failed because its expression is not a
\* type or the type is not real, the next resolve of the same alias on the
\* context raises an error too; it does not return a type.
C38_FailedResolveRaisesAgain ==
    [][(/\ resolved'.number = resolved.number + 1
        /\ resolved.raised \in AliasErrors
        /\ resolved'.alias = resolved.alias)
       => resolved'.raised # ErrNone]_vars

====
